---------------------------- MODULE Spec2Model ----------------------------
(***************************************************************************)
(* Market-data collector: the processing pipeline of                       *)
(* netlify/functions/fetch-market-data.js (process-market-data handler and *)
(* its stages) and the indicator engine of                                 *)
(* netlify/functions/calculate-indicators.js.                              *)
(*                                                                         *)
(* JavaScript values are kept exact.  A timestamp is an integer.  A price  *)
(* or volume ("Number") is a tuple of integers:                            *)
(*    <<x>>                 the integer x                                  *)
(*    <<p, q>>              the fraction p/q, q > 0                        *)
(*    <<sg, n, s, v, t>>    (s + sg*t*sqrt(v)) / n, the clamp bound        *)
(*                          mean +/- t*stdDev of a batch of n values with  *)
(*                          sum s and n*sum(x^2) - s^2 = v                 *)
(*    <<0, 0, 0>>           null (the only value of length 3)              *)
(*    <<c, i, 0, 0>>        the number the technicalindicators library     *)
(*                          computed for position i of its series c        *)
(* so that two values can always be compared.  `undefined` is <<>> and a   *)
(* defined optional value x is <<x>>.  An object is a function from its    *)
(* property names; JSON.stringify drops the properties that are undefined  *)
(* and writes null for an undefined array element.                         *)
(***************************************************************************)
EXTENDS Integers, Sequences, FiniteSets, TLC

VARIABLES
    event,            \* the request: [fn, httpMethod, body]
    pc,               \* the handler's position
    processedData,    \* process handler: `let processedData`
    processingSteps,  \* process handler: `const processingSteps`
    result,           \* indicator handler: `const result`
    cursor,           \* indicator handler: index of the for-of loop
    response,         \* the handler's return value, once pc = "done"
    received,         \* the client: the responses of its earlier requests
    suspended,        \* a concurrent invocation that is not running: <<>> or <<its locals>>
    currentSince,     \* fetch handler: `let currentSince`
    allCandles,       \* fetch handler: `let allCandles`, the candles' timestamps
    lastStatus,       \* Firestore: lastStatus of each scheduled job
    results,          \* collection handler: `const results`
    job,              \* collection handler: index of the for-of loop over activeJobs
    thrown            \* collection handler: the step whose error the catch block handles

\* The locals of the fetch handler, and the state of the collection handler
fetchVars == <<currentSince, allCandles>>

collectVars == <<lastStatus, results, job, thrown>>

vars == <<event, pc, processedData, processingSteps, result, cursor, response, received,
          suspended, currentSince, allCandles, lastStatus, results, job, thrown>>

-----------------------------------------------------------------------------
(* Numbers *)

Undefined == <<>>

Int1(x) == <<x>>

IsInt(a) == Len(a) = 1

IsBound(a) == Len(a) = 5

\* Math.floor(a / b) for integers a and b # 0
FloorDiv(a, b) == IF b > 0 THEN a \div b ELSE (-a) \div (-b)

\* a <= b on integers and clamp bounds, decided without taking the root:
\* x <= (s + sg*t*sqrt(v))/n  <=>  n*x - s <= sg*t*sqrt(v)
NumLeq(a, b) ==
    CASE IsInt(a) /\ IsInt(b) -> a[1] <= b[1]
      [] IsInt(a) /\ IsBound(b) ->
            LET d == b[2] * a[1] - b[3]
                w == b[5] * b[5] * b[4]
            IN  IF b[1] > 0 THEN d <= 0 \/ d * d <= w
                            ELSE d <= 0 /\ d * d >= w
      [] IsBound(a) /\ IsInt(b) ->
            LET d == a[2] * b[1] - a[3]
                w == a[5] * a[5] * a[4]
            IN  IF a[1] > 0 THEN d >= 0 /\ d * d >= w
                            ELSE d >= 0 \/ d * d <= w
      [] IsBound(a) /\ IsBound(b) /\ a = b -> TRUE

\* Math.min and Math.max
NumMin(a, b) == IF NumLeq(a, b) THEN a ELSE b

NumMax(a, b) == IF NumLeq(a, b) THEN b ELSE a

-----------------------------------------------------------------------------
(* Candles *)

\* new Date(timestamp).toISOString(): a string that determines the timestamp
toISOString(timestamp) == <<"iso", timestamp>>

\* { ...candle, k: v }: the object `o` with the properties of `upd` set
Spread(o, upd) == [k \in DOMAIN o \cup DOMAIN upd |-> IF k \in DOMAIN upd THEN upd[k] ELSE o[k]]

\* The properties whose value can be undefined: the one alignTimestamps sets
\* and those the indicator handler merges into a candle
OptionalProps ==
    {"originalTimestamp", "sma", "ema", "rsi", "atr", "obv", "returns",
     "macd_macd", "macd_signal", "macd_histogram",
     "bollinger_upper", "bollinger_middle", "bollinger_lower",
     "stochastic_k", "stochastic_d"}

\* JSON.stringify of an object: a property holding undefined is left out
StringifyObject(o) ==
    [k \in {j \in DOMAIN o : ~(j \in OptionalProps /\ o[j] = Undefined)} |-> o[k]]

StringifyCandles(data) == [i \in 1..Len(data) |-> StringifyObject(data[i])]

-----------------------------------------------------------------------------
(* Timeframe inference *)

\* The loop bound of the sampling window: i < Math.min(data.length, 10)
SampleWindow == 10

Min2(a, b) == IF a <= b THEN a ELSE b

\* Mutant: the loop runs to data.length, over every consecutive pair
DifferencesOfAll(data) ==
    [k \in 1..(Len(data) - 1) |-> data[k + 1].timestamp - data[k].timestamp]

\* differences[k] = data[k+1].timestamp - data[k].timestamp (1-based)
Differences(data) ==
    [k \in 1..(Min2(Len(data), SampleWindow) - 1) |-> data[k + 1].timestamp - data[k].timestamp]

\* differenceCounts[diffs[k]] just after the k-th round of the forEach
CountUpTo(diffs, k) == Cardinality({j \in 1..k : diffs[j] = diffs[k]})

\* <<maxCount, mostCommonDiff>> after the first k rounds of the forEach
RECURSIVE ModeScan(_, _)
ModeScan(diffs, k) ==
    IF k = 0 THEN <<0, diffs[1]>>
    ELSE LET prev == ModeScan(diffs, k - 1)
             c == CountUpTo(diffs, k)
         IN  IF c > prev[1] THEN <<c, diffs[k]>> ELSE prev

\* null is <<>>, a detected timeframe d is <<d>>
getTimeframeFromData(data) ==
    IF Len(data) < 2 THEN Undefined
    ELSE LET diffs == Differences(data)
         IN  <<ModeScan(diffs, Len(diffs))[2]>>

\* !timeframe: null and 0 are falsy
Falsy(timeframe) == timeframe = Undefined \/ timeframe[1] = 0

-----------------------------------------------------------------------------
(* Gap filling *)

\* [...data].sort((a, b) => a.timestamp - b.timestamp): stable
RECURSIVE InsertSorted(_, _)
InsertSorted(sorted, candle) ==
    IF sorted = <<>> THEN <<candle>>
    ELSE IF sorted[Len(sorted)].timestamp <= candle.timestamp
         THEN Append(sorted, candle)
         ELSE Append(InsertSorted(SubSeq(sorted, 1, Len(sorted) - 1), candle),
                     sorted[Len(sorted)])

RECURSIVE SortByTimestamp(_)
SortByTimestamp(data) ==
    IF data = <<>> THEN <<>>
    ELSE InsertSorted(SortByTimestamp(SubSeq(data, 1, Len(data) - 1)), data[Len(data)])

\* Mutant: `<` where the loop has `<=`, so the end timestamp is left out
RECURSIVE generateExpectedTimestampsExclusive(_, _, _)
generateExpectedTimestampsExclusive(startTimestamp, endTimestamp, timeframeMs) ==
    IF startTimestamp < endTimestamp
    THEN <<startTimestamp>> \o
         generateExpectedTimestampsExclusive(startTimestamp + timeframeMs, endTimestamp,
                                             timeframeMs)
    ELSE <<>>

\* generateExpectedTimestamps, for timeframeMs > 0
RECURSIVE generateExpectedTimestamps(_, _, _)
generateExpectedTimestamps(startTimestamp, endTimestamp, timeframeMs) ==
    IF startTimestamp <= endTimestamp
    THEN <<startTimestamp>> \o
         generateExpectedTimestamps(startTimestamp + timeframeMs, endTimestamp, timeframeMs)
    ELSE <<>>

\* dataMap[timestamp]: the last candle of sortedData with that timestamp,
\* <<>> when there is none
DataMap(sortedData, timestamp) ==
    LET hits == {i \in 1..Len(sortedData) : sortedData[i].timestamp = timestamp}
    IN  IF hits = {} THEN <<>>
        ELSE <<sortedData[CHOOSE i \in hits : \A j \in hits : j <= i]>>

\* Mutant: the last valid candle copied whole, its timestamp with it
ForwardFilledCopy(timestamp, lastValidCandle) ==
    Spread(lastValidCandle, [volume |-> Int1(0), interpolated |-> TRUE])

\* Mutant: the synthetic candle repeats the last valid candle's prices
ForwardFilledPrices(timestamp, lastValidCandle) ==
    [timestamp |-> timestamp,
     datetime |-> toISOString(timestamp),
     open |-> lastValidCandle.open,
     high |-> lastValidCandle.high,
     low |-> lastValidCandle.low,
     close |-> lastValidCandle.close,
     volume |-> Int1(0),
     interpolated |-> TRUE]

ForwardFilled(timestamp, lastValidCandle) ==
    [timestamp |-> timestamp,
     datetime |-> toISOString(timestamp),
     open |-> lastValidCandle.close,
     high |-> lastValidCandle.close,
     low |-> lastValidCandle.close,
     close |-> lastValidCandle.close,
     volume |-> Int1(0),
     interpolated |-> TRUE]

\* <<filledData, lastValidCandle>> after the first k expected timestamps;
\* lastValidCandle is <<>> (null) or <<candle>>
RECURSIVE FillScan(_, _, _)
FillScan(sortedData, expected, k) ==
    IF k = 0 THEN <<(<<>>), (<<>>)>>
    ELSE LET prev == FillScan(sortedData, expected, k - 1)
             hit == DataMap(sortedData, expected[k])
         IN  IF hit # <<>>
             THEN <<Append(prev[1], hit[1]), hit>>
             ELSE IF prev[2] # <<>>
                  THEN <<Append(prev[1], ForwardFilled(expected[k], prev[2][1])), prev[2]>>
                  ELSE prev

\* Mutant: nothing returned when the timeframe cannot be detected
handleMissingValuesOrNothing(data) ==
    IF Len(data) = 0 THEN <<>>
    ELSE LET sortedData == SortByTimestamp(data)
             timeframe == getTimeframeFromData(sortedData)
         IN  IF Falsy(timeframe) THEN <<>>
             ELSE LET expectedTimestamps ==
                          generateExpectedTimestamps(sortedData[1].timestamp,
                                                     sortedData[Len(sortedData)].timestamp,
                                                     timeframe[1])
                  IN  FillScan(sortedData, expectedTimestamps, Len(expectedTimestamps))[1]

handleMissingValues(data) ==
    IF Len(data) = 0 THEN <<>>
    ELSE LET sortedData == SortByTimestamp(data)
             timeframe == getTimeframeFromData(sortedData)
         IN  IF Falsy(timeframe) THEN sortedData
             ELSE LET expectedTimestamps ==
                          generateExpectedTimestamps(sortedData[1].timestamp,
                                                     sortedData[Len(sortedData)].timestamp,
                                                     timeframe[1])
                  IN  FillScan(sortedData, expectedTimestamps, Len(expectedTimestamps))[1]

-----------------------------------------------------------------------------
(* Outlier correction *)

\* The batch size below which removeOutliers returns its input
MinOutlierBatch == 10

RECURSIVE SumOf(_, _, _)
SumOf(data, field, k) ==
    IF k = 0 THEN 0 ELSE SumOf(data, field, k - 1) + data[k][field][1]

RECURSIVE SumSqOf(_, _, _)
SumSqOf(data, field, k) ==
    IF k = 0 THEN 0 ELSE SumSqOf(data, field, k - 1) + data[k][field][1] * data[k][field][1]

\* n*n times the population variance of the field: n*sum(x^2) - (sum x)^2.
\* mean = Sum/n and stdDev = sqrt(ScaledVariance)/n.
ScaledVariance(data, field) ==
    Len(data) * SumSqOf(data, field, Len(data))
        - SumOf(data, field, Len(data)) * SumOf(data, field, Len(data))

\* Mutant: `>=` for `>`, which flags a value at the mean when stdDev is 0
ZScoreExceedsOrEquals(data, field, x, threshold) ==
    LET d == Len(data) * x[1] - SumOf(data, field, Len(data))
    IN  d * d >= threshold * threshold * ScaledVariance(data, field)

\* Math.abs((x - mean) / stdDev) > threshold.  With stdDev = 0 every x is the
\* mean, the quotient is 0/0 = NaN and the comparison is false, as here.
ZScoreExceeds(data, field, x, threshold) ==
    LET d == Len(data) * x[1] - SumOf(data, field, Len(data))
    IN  d * d > threshold * threshold * ScaledVariance(data, field)

\* mean + threshold * stdDev (sg = 1) and mean - threshold * stdDev (sg = -1)
ClampBound(data, field, sg, threshold) ==
    <<sg, Len(data), SumOf(data, field, Len(data)), ScaledVariance(data, field), threshold>>

\* Mutant: Math.max where the code has Math.min, and Math.min for Math.max
CorrectCandleWrongSide(data, candle, threshold) ==
    IF ZScoreExceeds(data, "high", candle.high, threshold)
    THEN Spread(candle, [high |-> NumMax(candle.high, ClampBound(data, "high", 1, threshold)),
                         outlierCorrected |-> TRUE])
    ELSE IF ZScoreExceeds(data, "low", candle.low, threshold)
         THEN Spread(candle, [low |-> NumMin(candle.low, ClampBound(data, "low", -1, threshold)),
                              outlierCorrected |-> TRUE])
         ELSE candle

\* Mutant: the low check made on every candle, whatever the high check found
CorrectCandleBoth(data, candle, threshold) ==
    LET afterHigh ==
            IF ZScoreExceeds(data, "high", candle.high, threshold)
            THEN Spread(candle, [high |-> NumMin(candle.high, ClampBound(data, "high", 1, threshold)),
                                 outlierCorrected |-> TRUE])
            ELSE candle
    IN  IF ZScoreExceeds(data, "low", candle.low, threshold)
        THEN Spread(afterHigh, [low |-> NumMax(candle.low, ClampBound(data, "low", -1, threshold)),
                                outlierCorrected |-> TRUE])
        ELSE afterHigh

CorrectCandle(data, candle, threshold) ==
    IF ZScoreExceeds(data, "high", candle.high, threshold)
    THEN Spread(candle, [high |-> NumMin(candle.high, ClampBound(data, "high", 1, threshold)),
                         outlierCorrected |-> TRUE])
    ELSE IF ZScoreExceeds(data, "low", candle.low, threshold)
         THEN Spread(candle, [low |-> NumMax(candle.low, ClampBound(data, "low", -1, threshold)),
                              outlierCorrected |-> TRUE])
         ELSE candle

\* Mutant: the guard lets a batch of 9 candles through to the statistics
removeOutliersFromNine(data, threshold) ==
    IF Len(data) < MinOutlierBatch - 1 THEN data
    ELSE [i \in 1..Len(data) |-> CorrectCandle(data, data[i], threshold)]

removeOutliers(data, threshold) ==
    IF Len(data) < MinOutlierBatch THEN data
    ELSE [i \in 1..Len(data) |-> CorrectCandle(data, data[i], threshold)]

-----------------------------------------------------------------------------
(* Normalization *)

RECURSIVE MinOf(_, _, _)
MinOf(data, field, k) ==
    IF k = 1 THEN data[1][field] ELSE NumMin(MinOf(data, field, k - 1), data[k][field])

RECURSIVE MaxOf(_, _, _)
MaxOf(data, field, k) ==
    IF k = 1 THEN data[1][field] ELSE NumMax(MaxOf(data, field, k - 1), data[k][field])

\* A number whose value is not followed: a quotient with a clamp bound in it
Untracked == <<0, 0, 0, 0>>

\* Mutant: the division by max instead of max - min
NormalizedByMax(data, field, x) ==
    LET lo == MinOf(data, field, Len(data))
        hi == MaxOf(data, field, Len(data))
    IN  CASE IsInt(x) /\ IsInt(lo) /\ IsInt(hi) ->
             <<x[1] - lo[1], IF hi[1] # 0 THEN hi[1] ELSE 1>>
          [] OTHER -> Untracked

\* (x - min) / (max - min || 1): the exact fraction on integers
Normalized(data, field, x) ==
    LET lo == MinOf(data, field, Len(data))
        hi == MaxOf(data, field, Len(data))
    IN  CASE IsInt(x) /\ IsInt(lo) /\ IsInt(hi) ->
             <<x[1] - lo[1], IF hi[1] - lo[1] # 0 THEN hi[1] - lo[1] ELSE 1>>
          [] OTHER -> Untracked

normalizeData(data) ==
    IF Len(data) = 0 THEN <<>>
    ELSE [i \in 1..Len(data) |->
            Spread(data[i],
                   [normalizedOpen |-> Normalized(data, "open", data[i].open),
                    normalizedHigh |-> Normalized(data, "high", data[i].high),
                    normalizedLow |-> Normalized(data, "low", data[i].low),
                    normalizedClose |-> Normalized(data, "close", data[i].close),
                    normalizedVolume |-> Normalized(data, "volume", data[i].volume)])]

-----------------------------------------------------------------------------
(* Timestamp alignment *)

\* Mutant: originalTimestamp recorded on every candle, moved or not
AlignCandleAlwaysRecorded(candle, timeframe) ==
    LET timestamp == candle.timestamp
        alignedTimestamp == FloorDiv(timestamp, timeframe) * timeframe
    IN  Spread(candle,
               [timestamp |-> alignedTimestamp,
                datetime |-> toISOString(alignedTimestamp),
                originalTimestamp |-> <<timestamp>>])

AlignCandle(candle, timeframe) ==
    LET timestamp == candle.timestamp
        alignedTimestamp == FloorDiv(timestamp, timeframe) * timeframe
    IN  Spread(candle,
               [timestamp |-> alignedTimestamp,
                datetime |-> toISOString(alignedTimestamp),
                originalTimestamp |->
                    IF timestamp # alignedTimestamp THEN <<timestamp>> ELSE Undefined])

\* Mutant: an undetectable timeframe answered like the empty input
alignTimestampsOrNothing(data) ==
    IF Len(data) = 0 THEN <<>>
    ELSE LET timeframe == getTimeframeFromData(data)
         IN  IF Falsy(timeframe) THEN <<>>
             ELSE [i \in 1..Len(data) |-> AlignCandle(data[i], timeframe[1])]

alignTimestamps(data) ==
    IF Len(data) = 0 THEN <<>>
    ELSE LET timeframe == getTimeframeFromData(data)
         IN  IF Falsy(timeframe) THEN data
             ELSE [i \in 1..Len(data) |-> AlignCandle(data[i], timeframe[1])]

-----------------------------------------------------------------------------
(* The process-market-data handler *)

\* The request body after JSON.parse and destructuring
RequestData == event.body.data

RequestOptions == event.body.options

\* options.<name>, with `options = {}` when the body has none
Option(name) ==
    IF RequestOptions.type = "undefined" THEN "undefined" ELSE RequestOptions[name]

\* options.outlierThreshold || 3; an absent threshold is 0 here
DefaultThreshold == 3

Threshold ==
    IF RequestOptions.type = "undefined" \/ RequestOptions.outlierThreshold = 0
    THEN DefaultThreshold
    ELSE RequestOptions.outlierThreshold

\* The guards of the four blocks: `!== false` for the first three stages,
\* `=== true` for normalize
StageEnabled(stage) ==
    CASE stage = "alignTimestamps" -> Option("alignTimestamps") # "false"
      [] stage = "handleMissingValues" -> Option("handleMissingValues") # "false"
      [] stage = "removeOutliers" -> Option("removeOutliers") # "false"
      [] stage = "normalize" -> Option("normalize") = "true"

\* The stage's function applied to the working array
StageApply(stage, data) ==
    CASE stage = "alignTimestamps" -> alignTimestamps(data)
      [] stage = "handleMissingValues" -> handleMissingValues(data)
      [] stage = "removeOutliers" -> removeOutliers(data, Threshold)
      [] stage = "normalize" -> normalizeData(data)

\* Mutant: the outlier block moved before the gap-filling block
StageAfterSwapped(stage) ==
    CASE stage = "alignTimestamps" -> "removeOutliers"
      [] stage = "removeOutliers" -> "handleMissingValues"
      [] stage = "handleMissingValues" -> "normalize"
      [] stage = "normalize" -> "respond"

\* The order of the four blocks in the handler
StageAfter(stage) ==
    CASE stage = "alignTimestamps" -> "handleMissingValues"
      [] stage = "handleMissingValues" -> "removeOutliers"
      [] stage = "removeOutliers" -> "normalize"
      [] stage = "normalize" -> "respond"

FirstStage == "alignTimestamps"

Preflight == [statusCode |-> 200, body |-> [message |-> "CORS preflight request successful"]]

MethodNotAllowed == [statusCode |-> 405, body |-> [error |-> "Method not allowed"]]

BadRequest ==
    [statusCode |-> 400,
     body |-> [error |-> "Missing or invalid data parameter",
               required |-> "Array of OHLCV data objects"]]

\* The catch block: whatever was thrown, the status is 500
InternalError == [statusCode |-> 500, body |-> [error |-> "Internal server error"]]

\* Entry of either handler up to the validation of `data`: the response it
\* returns at once, or <<>> when the request goes on
EarlyResponse ==
    IF event.httpMethod = "OPTIONS" THEN <<Preflight>>
    ELSE IF event.httpMethod # "POST" THEN <<MethodNotAllowed>>
    ELSE IF event.body.json = "invalid" THEN <<InternalError>>   \* JSON.parse throws
    ELSE IF event.body.json = "null" THEN <<InternalError>>      \* destructuring null throws
    ELSE IF RequestData.type # "array" THEN <<BadRequest>>
    ELSE <<>>

ProcessReceive ==
    /\ pc = "start"
    /\ event.fn = "process"
    /\ IF EarlyResponse # <<>>
       THEN /\ response' = EarlyResponse[1]
            /\ pc' = "done"
            /\ UNCHANGED <<processedData, processingSteps>>
       ELSE /\ processedData' = RequestData.items
            /\ processingSteps' = <<>>
            /\ pc' = FirstStage
            /\ UNCHANGED response
    /\ UNCHANGED <<event, result, cursor, received, suspended, fetchVars, collectVars>>

\* One `if (options...) { ... }` block.  Reading a property of `options: null`
\* throws in the first block.
ProcessStage(stage) ==
    /\ pc = stage
    /\ IF RequestOptions.type = "null"
       THEN /\ response' = InternalError
            /\ pc' = "done"
            /\ UNCHANGED <<processedData, processingSteps>>
       ELSE /\ IF StageEnabled(stage)
               THEN /\ processedData' = StageApply(stage, processedData)
                    /\ processingSteps' = Append(processingSteps, stage)
               ELSE UNCHANGED <<processedData, processingSteps>>
            /\ pc' = StageAfter(stage)
            /\ UNCHANGED response
    /\ UNCHANGED <<event, result, cursor, received, suspended, fetchVars, collectVars>>

RunAlignTimestamps == ProcessStage("alignTimestamps")

RunHandleMissingValues == ProcessStage("handleMissingValues")

RunRemoveOutliers == ProcessStage("removeOutliers")

RunNormalize == ProcessStage("normalize")

ProcessRespond ==
    /\ pc = "respond"
    /\ event.fn = "process"
    /\ response' = [statusCode |-> 200,
                    body |-> [originalCount |-> Len(RequestData.items),
                              processedCount |-> Len(processedData),
                              processingSteps |-> processingSteps,
                              data |-> StringifyCandles(processedData)]]
    /\ pc' = "done"
    /\ UNCHANGED <<event, processedData, processingSteps, result, cursor, received, suspended, fetchVars, collectVars>>

NextProcess ==
    \/ ProcessReceive
    \/ RunAlignTimestamps
    \/ RunHandleMissingValues
    \/ RunRemoveOutliers
    \/ RunNormalize
    \/ ProcessRespond

-----------------------------------------------------------------------------
(* Indicators: netlify/functions/calculate-indicators.js *)

Null == <<0, 0, 0>>

\* A number computed by the library: only its series and position are kept
Computed(series, i) == <<series, i, 0, 0>>

\* Array(k).fill(null)
Padding(k) == [i \in 1..k |-> Null]

RECURSIVE SumCloses(_, _, _)
SumCloses(data, from, to) ==
    IF from > to THEN 0 ELSE data[from].close[1] + SumCloses(data, from + 1, to)

\* technicalIndicators.SMA.calculate: one mean per full window
LibrarySMA(data, period) ==
    [i \in 1..(Len(data) - period + 1) |-> <<SumCloses(data, i, i + period - 1), period>>]

\* technicalIndicators.EMA.calculate: one value per full window
LibraryEMA(data, period) == [i \in 1..(Len(data) - period + 1) |-> Computed(2, i)]

\* technicalIndicators.RSI.calculate: one value per candle after the first `period`
LibraryRSI(data, period) == [i \in 1..(Len(data) - period) |-> Computed(3, i)]

\* technicalIndicators.MACD.calculate: one item per candle from the slow period
\* on; signal and histogram are undefined until the signal EMA has its window
LibraryMACD(data, fastPeriod, slowPeriod, signalPeriod) ==
    [i \in 1..(Len(data) - slowPeriod + 1) |->
        [MACD |-> Computed(4, i),
         signal |-> IF i < signalPeriod THEN Undefined ELSE Computed(5, i),
         histogram |-> IF i < signalPeriod THEN Undefined ELSE Computed(6, i)]]

\* technicalIndicators.BollingerBands.calculate: one item per full window
LibraryBollingerBands(data, period) ==
    [i \in 1..(Len(data) - period + 1) |->
        [upper |-> Computed(7, i), middle |-> Computed(8, i), lower |-> Computed(9, i)]]

\* technicalIndicators.ATR.calculate: one value per candle after the first `period`
LibraryATR(data, period) == [i \in 1..(Len(data) - period) |-> Computed(10, i)]

\* technicalIndicators.Stochastic.calculate: one item per full window; d is
\* undefined until its moving average has signalPeriod values of k
LibraryStochastic(data, period, signalPeriod) ==
    [i \in 1..(Len(data) - period + 1) |->
        [k |-> Computed(11, i),
         d |-> IF i < signalPeriod THEN Undefined ELSE Computed(12, i)]]

\* An entry of result.indicators: an array, or an object of arrays
Series(values) == [array |-> TRUE, values |-> values]

Group(subs) == [array |-> FALSE, subs |-> subs]

\* Mutant: the padding appended instead of prepended
PaddedAtEnd(data, values) == values \o Padding(Len(data) - Len(values))

\* [...padding, ...values] with padding = Array(data.length - values.length).fill(null)
Padded(data, values) == Padding(Len(data) - Len(values)) \o values

Pluck(items, key) == [i \in 1..Len(items) |-> items[i][key]]

\* Mutant: an input of exactly `period` candles answered with no series
calculateSMAStrict(data, period) ==
    IF Len(data) <= period THEN Series(<<>>)
    ELSE Series(Padded(data, LibrarySMA(data, period)))

calculateSMA(data, period) ==
    IF Len(data) < period THEN Series(<<>>)
    ELSE Series(Padded(data, LibrarySMA(data, period)))

calculateEMA(data, period) ==
    IF Len(data) < period THEN Series(<<>>)
    ELSE Series(Padded(data, LibraryEMA(data, period)))

calculateRSI(data, period) ==
    IF Len(data) < period + 1 THEN Series(<<>>)
    ELSE Series(Padded(data, LibraryRSI(data, period)))

calculateMACD(data, fastPeriod, slowPeriod, signalPeriod) ==
    IF Len(data) < slowPeriod + signalPeriod
    THEN Group([macd |-> <<>>, signal |-> <<>>, histogram |-> <<>>])
    ELSE LET macdResult == LibraryMACD(data, fastPeriod, slowPeriod, signalPeriod)
         IN  Group([macd |-> Padded(data, Pluck(macdResult, "MACD")),
                    signal |-> Padded(data, Pluck(macdResult, "signal")),
                    histogram |-> Padded(data, Pluck(macdResult, "histogram"))])

calculateBollingerBands(data, period) ==
    IF Len(data) < period
    THEN Group([upper |-> <<>>, middle |-> <<>>, lower |-> <<>>])
    ELSE LET bbResult == LibraryBollingerBands(data, period)
         IN  Group([upper |-> Padded(data, Pluck(bbResult, "upper")),
                    middle |-> Padded(data, Pluck(bbResult, "middle")),
                    lower |-> Padded(data, Pluck(bbResult, "lower"))])

\* Mutant: the library's values returned without the padding
calculateATRUnpadded(data, period) ==
    IF Len(data) < period + 1 THEN Series(<<>>)
    ELSE Series(LibraryATR(data, period))

calculateATR(data, period) ==
    IF Len(data) < period + 1 THEN Series(<<>>)
    ELSE Series(Padded(data, LibraryATR(data, period)))

calculateStochastic(data, period, signalPeriod) ==
    IF Len(data) < period
    THEN Group([k |-> <<>>, d |-> <<>>])
    ELSE LET stoch == LibraryStochastic(data, period, signalPeriod)
         IN  Group([k |-> Padded(data, Pluck(stoch, "k")),
                    d |-> Padded(data, Pluck(stoch, "d"))])

\* Mutant: the volume subtracted when the close rises and added when it falls
ObvNextInverted(previousObv, currentClose, previousClose, currentVolume) ==
    IF currentClose > previousClose THEN Int1(previousObv[1] - currentVolume)
    ELSE IF currentClose < previousClose THEN Int1(previousObv[1] + currentVolume)
    ELSE previousObv

\* The value one round of the loop pushes
ObvNext(previousObv, currentClose, previousClose, currentVolume) ==
    IF currentClose > previousClose THEN Int1(previousObv[1] + currentVolume)
    ELSE IF currentClose < previousClose THEN Int1(previousObv[1] - currentVolume)
    ELSE previousObv

\* obv after the rounds i = 1..k-1 of the loop: its first k entries
RECURSIVE ObvScan(_, _)
ObvScan(data, k) ==
    IF k = 1 THEN <<Int1(0)>>
    ELSE LET obv == ObvScan(data, k - 1)
         IN  Append(obv, ObvNext(obv[k - 1], data[k].close[1], data[k - 1].close[1],
                                 data[k].volume[1]))

calculateOBV(data) ==
    IF Len(data) < 2 THEN Series(<<>>) ELSE Series(ObvScan(data, Len(data)))

\* ((currentClose - previousClose) / previousClose) * 100, as a fraction
RECURSIVE ReturnsScan(_, _)
ReturnsScan(data, k) ==
    IF k = 1 THEN <<Null>>
    ELSE Append(ReturnsScan(data, k - 1),
                <<(data[k].close[1] - data[k - 1].close[1]) * 100, data[k - 1].close[1]>>)

calculateReturns(data) ==
    IF Len(data) < 2 THEN Series(<<>>) ELSE Series(ReturnsScan(data, Len(data)))

-----------------------------------------------------------------------------
(* The calculate-indicators handler *)

RequestIndicators == event.body.indicators

RequestParameters == event.body.parameters

\* `indicators = ['sma', 'ema', 'rsi']` when the body has none
IndicatorList ==
    IF RequestIndicators.type = "undefined" THEN <<"sma", "ema", "rsi">>
    ELSE RequestIndicators.items

\* The default periods of the switch
DefaultSmaPeriod == 20
DefaultEmaPeriod == 20
DefaultRsiPeriod == 14
DefaultMacdFastPeriod == 12
DefaultMacdSlowPeriod == 26
DefaultMacdSignalPeriod == 9
DefaultBollingerPeriod == 20
DefaultAtrPeriod == 14
DefaultStochasticPeriod == 14
DefaultStochasticSignalPeriod == 3

\* parameters.<name> || default; an absent parameter is 0 here
Parameter(name, default) ==
    IF RequestParameters.type = "undefined" \/ RequestParameters[name] = 0
    THEN default
    ELSE RequestParameters[name]

\* indicator.toLowerCase(), on the names the requests use
toLowerCase(name) ==
    CASE name = "SMA" -> "sma"
      [] name = "Obv" -> "obv"
      [] OTHER -> name

Supported == {"sma", "ema", "rsi", "macd", "bollinger", "atr", "stochastic", "obv", "returns"}

\* The cases of the switch
Calculate(name, data) ==
    CASE name = "sma" -> calculateSMA(data, Parameter("smaPeriod", DefaultSmaPeriod))
      [] name = "ema" -> calculateEMA(data, Parameter("emaPeriod", DefaultEmaPeriod))
      [] name = "rsi" -> calculateRSI(data, Parameter("rsiPeriod", DefaultRsiPeriod))
      [] name = "macd" ->
            calculateMACD(data,
                          Parameter("macdFastPeriod", DefaultMacdFastPeriod),
                          Parameter("macdSlowPeriod", DefaultMacdSlowPeriod),
                          Parameter("macdSignalPeriod", DefaultMacdSignalPeriod))
      [] name = "bollinger" ->
            calculateBollingerBands(data, Parameter("bollingerPeriod", DefaultBollingerPeriod))
      [] name = "atr" -> calculateATR(data, Parameter("atrPeriod", DefaultAtrPeriod))
      [] name = "stochastic" ->
            calculateStochastic(data,
                                Parameter("stochasticPeriod", DefaultStochasticPeriod),
                                Parameter("stochasticSignalPeriod", DefaultStochasticSignalPeriod))
      [] name = "obv" -> calculateOBV(data)
      [] name = "returns" -> calculateReturns(data)

\* `${indicatorName}_${subName}`
SubKey(indicatorName, subName) ==
    CASE indicatorName = "macd" /\ subName = "macd" -> "macd_macd"
      [] indicatorName = "macd" /\ subName = "signal" -> "macd_signal"
      [] indicatorName = "macd" /\ subName = "histogram" -> "macd_histogram"
      [] indicatorName = "bollinger" /\ subName = "upper" -> "bollinger_upper"
      [] indicatorName = "bollinger" /\ subName = "middle" -> "bollinger_middle"
      [] indicatorName = "bollinger" /\ subName = "lower" -> "bollinger_lower"
      [] indicatorName = "stochastic" /\ subName = "k" -> "stochastic_k"
      [] indicatorName = "stochastic" /\ subName = "d" -> "stochastic_d"

\* values[index], undefined past the end of the array (index is 1-based here)
At(values, index) == IF index <= Len(values) THEN values[index] ELSE Undefined

\* The properties the two Object.entries loops set on `combined`:
\* <<property, indicatorName, subName>>
CombinedFields(indicators) ==
    {<<n, n, "">> : n \in {m \in DOMAIN indicators : indicators[m].array}}
    \cup UNION {{<<SubKey(n, sub), n, sub>> : sub \in DOMAIN indicators[n].subs} :
                 n \in {m \in DOMAIN indicators : ~indicators[m].array}}

\* Mutant: the value of the next candle merged into each record
CombinedValueShifted(indicators, field, index) ==
    IF indicators[field[2]].array
    THEN At(indicators[field[2]].values, index + 1)
    ELSE At(indicators[field[2]].subs[field[3]], index + 1)

CombinedValue(indicators, field, index) ==
    IF indicators[field[2]].array
    THEN At(indicators[field[2]].values, index)
    ELSE At(indicators[field[2]].subs[field[3]], index)

\* The body of data.map((candle, index) => ...)
Combine(candle, index, indicators) ==
    LET fields == CombinedFields(indicators)
        keys == {f[1] : f \in fields}
    IN  [k \in DOMAIN candle \cup keys |->
            IF k \in keys
            THEN CombinedValue(indicators, CHOOSE f \in fields : f[1] = k, index)
            ELSE candle[k]]

\* JSON.stringify of an array: an undefined element is written as null
StringifySeries(values) ==
    [i \in 1..Len(values) |-> IF values[i] = Undefined THEN Null ELSE values[i]]

StringifyEntry(entry) ==
    IF entry.array THEN Series(StringifySeries(entry.values))
    ELSE Group([sub \in DOMAIN entry.subs |-> StringifySeries(entry.subs[sub])])

\* JSON.stringify(result)
StringifyResult(res) ==
    [k \in DOMAIN res |->
        CASE k = "originalData" -> StringifyCandles(res[k])
          [] k = "indicators" -> [n \in DOMAIN res[k] |-> StringifyEntry(res[k][n])]
          [] k = "combinedData" -> StringifyCandles(res[k])]

IndicatorsReceive ==
    /\ pc = "start"
    /\ event.fn = "indicators"
    /\ IF EarlyResponse # <<>>
       THEN /\ response' = EarlyResponse[1]
            /\ pc' = "done"
            /\ UNCHANGED <<result, cursor>>
       ELSE /\ result' = [originalData |-> RequestData.items, indicators |-> <<>>]
            /\ cursor' = 1
            /\ pc' = "loop"
            /\ UNCHANGED response
    /\ UNCHANGED <<event, processedData, processingSteps, received, suspended, fetchVars, collectVars>>

\* Mutant: the default case stores an empty series under the unknown name
RecordedWithUnknown(indicators, name, data) ==
    IF name \in Supported
    THEN Spread(indicators, name :> Calculate(name, data))
    ELSE Spread(indicators, name :> Series(<<>>))

\* result.indicators after the switch on one name; the default case only
\* calls console.warn
Recorded(indicators, name, data) ==
    IF name \in Supported
    THEN Spread(indicators, name :> Calculate(name, data))
    ELSE indicators

\* One round of `for (const indicator of indicators)`
IndicatorsCalculate ==
    /\ pc = "loop"
    /\ cursor <= Len(IndicatorList)
    /\ result' = [result EXCEPT !.indicators =
                      Recorded(@, toLowerCase(IndicatorList[cursor]), RequestData.items)]
    /\ cursor' = cursor + 1
    /\ UNCHANGED <<event, pc, processedData, processingSteps, response, received, suspended, fetchVars, collectVars>>

\* if (parameters.combineWithData === true) { ... }
IndicatorsCombine ==
    /\ pc = "loop"
    /\ cursor > Len(IndicatorList)
    /\ IF RequestParameters.type # "undefined" /\ RequestParameters.combineWithData
       THEN result' = Spread(result,
                             [combinedData |->
                                 [i \in 1..Len(RequestData.items) |->
                                     Combine(RequestData.items[i], i, result.indicators)]])
       ELSE UNCHANGED result
    /\ pc' = "respond"
    /\ UNCHANGED <<event, cursor, processedData, processingSteps, response, received, suspended, fetchVars, collectVars>>

IndicatorsRespond ==
    /\ pc = "respond"
    /\ event.fn = "indicators"
    /\ response' = [statusCode |-> 200, body |-> StringifyResult(result)]
    /\ pc' = "done"
    /\ UNCHANGED <<event, cursor, result, processedData, processingSteps, received, suspended, fetchVars, collectVars>>

NextIndicators ==
    \/ IndicatorsReceive
    \/ IndicatorsCalculate
    \/ IndicatorsCombine
    \/ IndicatorsRespond

-----------------------------------------------------------------------------
(* Requests *)

NoResponse == [statusCode |-> 0]

NoResult == [indicators |-> <<>>]

Candle(ts, o, h, l, c, v) ==
    [timestamp |-> ts, datetime |-> toISOString(ts),
     open |-> Int1(o), high |-> Int1(h), low |-> Int1(l), close |-> Int1(c), volume |-> Int1(v)]

\* The i-th candle of an input: prices that differ from candle to candle,
\* low <= open, close <= high
CandleNo(i, ts) == Candle(ts, 100 + i, 105 + 3 * i, 98 - i, 102 + 2 * i, 10 + i)

\* Bounds of the inputs
MaxLen == 2

MaxTs == 3

\* All sequences over S of length 0..n
SeqsUpTo(S, n) == UNION {[1..k -> S] : k \in 0..n}

\* The arrays with timestamps tss[1], tss[2], ...
ArrayOf(tss) == [type |-> "array", items |-> [i \in 1..Len(tss) |-> CandleNo(i, tss[i])]]

SmallArrays == {ArrayOf(tss) : tss \in SeqsUpTo(0..MaxTs, MaxLen)}

\* `data` that is missing or not an array
NotArrays == {[type |-> t] : t \in {"undefined", "null", "string", "object"}}

OptionValues == {"undefined", "true", "false", "null"}

OptionObjects(thresholds) ==
    [type : {"object"},
     alignTimestamps : OptionValues,
     handleMissingValues : OptionValues,
     removeOutliers : OptionValues,
     normalize : OptionValues,
     outlierThreshold : thresholds]

NoOptions == [type |-> "undefined"]

NullOptions == [type |-> "null"]

\* Options that enable exactly one stage
Only(stage, threshold) ==
    [type |-> "object",
     alignTimestamps |-> IF stage = "alignTimestamps" THEN "true" ELSE "false",
     handleMissingValues |-> IF stage = "handleMissingValues" THEN "true" ELSE "false",
     removeOutliers |-> IF stage = "removeOutliers" THEN "true" ELSE "false",
     normalize |-> IF stage = "normalize" THEN "true" ELSE "false",
     outlierThreshold |-> threshold]

ProcessPost(data, options) ==
    [fn |-> "process", httpMethod |-> "POST",
     body |-> [json |-> "value", data |-> data, options |-> options]]

\* Requests that never reach a valid body
Malformed(fn) ==
    {[fn |-> fn, httpMethod |-> m, body |-> [json |-> "null"]] : m \in {"OPTIONS", "GET", "POST"}}
    \cup {[fn |-> fn, httpMethod |-> "POST", body |-> [json |-> "invalid"]]}

ProcessRequests ==
    Malformed("process")
    \cup {ProcessPost(d, NoOptions) : d \in NotArrays}
    \cup {ProcessPost(d, o) : d \in SmallArrays, o \in OptionObjects({0}) \cup {NoOptions, NullOptions}}

\* The other handlers have not run
NoFetch == currentSince = 0 /\ allCandles = <<>>

NoCollection == lastStatus = <<>> /\ results = <<>> /\ job = 0 /\ thrown = ""

InitWith(requests) ==
    /\ event \in requests
    /\ pc = "start"
    /\ processedData = <<>>
    /\ processingSteps = <<>>
    /\ result = NoResult
    /\ cursor = 0
    /\ response = NoResponse
    /\ received = <<>>
    /\ suspended = <<>>
    /\ NoFetch
    /\ NoCollection

\* Bounds of the indicator inputs
MaxIndLen == 4

MaxPeriod == 3

\* The i-th candle of an indicator input, with close c
IndCandle(i, c) == Candle(i, c, c + 1, c - 1, c, 10 + i)

IndArrays ==
    {[type |-> "array", items |-> [i \in 1..Len(cs) |-> IndCandle(i, cs[i])]] :
        cs \in SeqsUpTo({100, 101}, MaxIndLen)}

AllIndicators == <<"sma", "ema", "rsi", "macd", "bollinger", "atr", "stochastic", "obv", "returns">>

IndicatorLists ==
    {[type |-> "undefined"]}
    \cup {[type |-> "array", items |-> <<n>>] : n \in Supported \cup {"unknown", "SMA"}}
    \cup {[type |-> "array", items |-> l] : l \in {AllIndicators, <<"Obv", "unknown", "macd">>}}

\* Parameters with every period p (the slow MACD period p + 1) and every
\* signal period q; 0 leaves a parameter out
ParametersWith(p, q, combine) ==
    [type |-> "object",
     smaPeriod |-> p, emaPeriod |-> p, rsiPeriod |-> p,
     macdFastPeriod |-> p, macdSlowPeriod |-> IF p = 0 THEN 0 ELSE p + 1, macdSignalPeriod |-> q,
     bollingerPeriod |-> p, atrPeriod |-> p,
     stochasticPeriod |-> p, stochasticSignalPeriod |-> q,
     combineWithData |-> combine]

ParameterObjects ==
    {[type |-> "undefined"]}
    \cup {ParametersWith(p, q, c) : p \in 0..MaxPeriod, q \in {0, 2}, c \in BOOLEAN}

IndicatorsPost(data, indicators, parameters) ==
    [fn |-> "indicators", httpMethod |-> "POST",
     body |-> [json |-> "value", data |-> data, indicators |-> indicators,
               parameters |-> parameters]]

IndicatorRequests ==
    Malformed("indicators")
    \cup {IndicatorsPost(d, [type |-> "undefined"], [type |-> "undefined"]) : d \in NotArrays}
    \cup {IndicatorsPost(d, l, q) : d \in IndArrays, l \in IndicatorLists, q \in ParameterObjects}

Next == NextProcess \/ NextIndicators

\* Both handlers, each on requests of every kind
Spec == InitWith(ProcessRequests \cup IndicatorRequests) /\ [][Next]_vars

\* The indicator handler alone
SpecIndicators == InitWith(IndicatorRequests) /\ [][NextIndicators]_vars

-----------------------------------------------------------------------------
(* One stage at a time: the process handler on requests that enable a      *)
(* single stage, so that the response is that stage's output on the        *)
(* request's data.                                                         *)

\* Gap filling: every order of up to MaxFillLen timestamps in 0..MaxFillTs
MaxFillLen == 4

MaxFillTs == 5

FillRequests ==
    {ProcessPost(ArrayOf(tss), Only("handleMissingValues", 0)) :
        tss \in SeqsUpTo(0..MaxFillTs, MaxFillLen)}

SpecFill == InitWith(FillRequests) /\ [][NextProcess]_vars

\* Outlier correction: batches of MinOutlierBatch - 1 .. MaxBatch candles, the
\* first two with any of the highs and lows below, the others alike, under
\* the default threshold (0) and the thresholds 1..MaxThreshold
MaxBatch == 11

MaxThreshold == 2

BatchHighs == {20, 22, 60}

BatchLows == {10, 8, 0}

Batch(n, h1, l1, h2, l2) ==
    [type |-> "array",
     items |-> [i \in 1..n |->
                  IF i = 1 THEN Candle(i, 15, h1, l1, 15, 10)
                  ELSE IF i = 2 THEN Candle(i, 15, h2, l2, 15, 10)
                  ELSE Candle(i, 15, 20, 10, 15, 10)]]

OutlierRequests ==
    {ProcessPost(Batch(n, h1, l1, h2, l2), Only("removeOutliers", t)) :
        n \in (MinOutlierBatch - 1)..MaxBatch, h1 \in BatchHighs, l1 \in BatchLows,
        h2 \in BatchHighs, l2 \in BatchLows, t \in 0..MaxThreshold}

SpecOutliers == InitWith(OutlierRequests) /\ [][NextProcess]_vars

\* Normalization: batches of up to MaxNormLen candles with values in 0..MaxValue
MaxNormLen == 3

MaxValue == 2

NormCandles ==
    {Candle(0, p[1], p[2], p[1], p[2], v) :
        p \in {q \in (0..MaxValue) \X (0..MaxValue) : q[2] \in {q[1], MaxValue}},
        v \in {0, MaxValue}}

NormRequests ==
    {ProcessPost([type |-> "array", items |-> cs], Only("normalize", 0)) :
        cs \in SeqsUpTo(NormCandles, MaxNormLen)}

SpecNormalize == InitWith(NormRequests) /\ [][NextProcess]_vars

\* Alignment, twice: the client posts the data of the response back
MaxAlignLen == 4

MaxAlignTs == 8

AlignRequests ==
    {ProcessPost(ArrayOf(tss), Only("alignTimestamps", 0)) :
        tss \in SeqsUpTo(0..MaxAlignTs, MaxAlignLen)}

\* The client parses the response and posts its data again, options unchanged
Resubmit ==
    /\ pc = "done"
    /\ event.fn = "process"
    /\ response.statusCode = 200
    /\ received = <<>>
    /\ received' = <<response>>
    /\ event' = [event EXCEPT !.body.data.items = response.body.data]
    /\ pc' = "start"
    /\ processedData' = <<>>
    /\ processingSteps' = <<>>
    /\ response' = NoResponse
    /\ UNCHANGED <<result, cursor, suspended, fetchVars, collectVars>>

SpecAlign == InitWith(AlignRequests) /\ [][NextProcess \/ Resubmit]_vars

\* Alignment alone, once, on candles in any order
MaxOnceLen == 3

MaxOnceTs == 6

AlignOnceRequests ==
    {ProcessPost(ArrayOf(tss), Only("alignTimestamps", 0)) :
        tss \in SeqsUpTo(0..MaxOnceTs, MaxOnceLen)}

SpecAlignOnce == InitWith(AlignOnceRequests) /\ [][NextProcess]_vars

\* Default options: the body has no options, or an empty options object
EmptyOptions ==
    [type |-> "object", alignTimestamps |-> "undefined", handleMissingValues |-> "undefined",
     removeOutliers |-> "undefined", normalize |-> "undefined", outlierThreshold |-> 0]

\* Candles on a grid: up to MaxGridLen candles, timeframe up to MaxGridTf,
\* the first timestamp a multiple of the timeframe
MaxGridLen == 9

MaxGridTf == 2

MaxGridStart == 2

\* Other inputs: up to MaxOffLen candles with timestamps in 0..MaxOffTs
MaxOffLen == 3

MaxOffTs == 4

GridArrays ==
    {ArrayOf([i \in 1..n |-> (k + i - 1) * tf]) :
        n \in 0..MaxGridLen, tf \in 1..MaxGridTf, k \in 0..MaxGridStart}

\* A candle as a client sends it without a datetime
WithoutDatetime(candle) == [k \in DOMAIN candle \ {"datetime"} |-> candle[k]]

BareArrays ==
    {[type |-> "array", items |-> [i \in 1..Len(a.items) |-> WithoutDatetime(a.items[i])]] :
        a \in GridArrays}

DefaultRequests ==
    {ProcessPost(d, o) :
        d \in GridArrays \cup BareArrays
               \cup {ArrayOf(tss) : tss \in SeqsUpTo(0..MaxOffTs, MaxOffLen)},
        o \in {NoOptions, EmptyOptions}}

SpecDefault == InitWith(DefaultRequests) /\ [][NextProcess]_vars

\* Degenerate batches: up to MaxDegLen candles with timestamps in 0..MaxDegTs
\* (empty, single, equal timestamps), and batches of MinOutlierBatch..MaxDegBatch
\* candles whose highs or lows are all equal, at distinct or at equal timestamps
MaxDegLen == 3

MaxDegTs == 1

MaxDegBatch == 10

SameTimestamp(array) ==
    [type |-> "array",
     items |-> [i \in 1..Len(array.items) |-> Spread(array.items[i], [timestamp |-> 0])]]

FlatBatches ==
    {Batch(n, 20, l1, 20, l2) : n \in MinOutlierBatch..MaxDegBatch, l1 \in BatchLows, l2 \in BatchLows}
    \cup {Batch(n, h1, 10, h2, 10) :
             n \in MinOutlierBatch..MaxDegBatch, h1 \in BatchHighs, h2 \in BatchHighs}

DegenerateArrays ==
    {ArrayOf(tss) : tss \in SeqsUpTo(0..MaxDegTs, MaxDegLen)}
    \cup FlatBatches
    \cup {SameTimestamp(b) : b \in FlatBatches}

AllOptions ==
    [type |-> "object", alignTimestamps |-> "true", handleMissingValues |-> "true",
     removeOutliers |-> "true", normalize |-> "true", outlierThreshold |-> 1]

DegenerateRequests ==
    {ProcessPost(d, o) :
        d \in DegenerateArrays,
        o \in {NoOptions, EmptyOptions, AllOptions}
               \cup {Only(stage, t) : stage \in {"alignTimestamps", "handleMissingValues",
                                                "removeOutliers", "normalize"},
                                     t \in {0, 1}}}

SpecDegenerate == InitWith(DegenerateRequests) /\ [][NextProcess]_vars

\* Two concurrent invocations of the process handler.  The variables hold
\* the one that is running; the other one's request, position, locals and
\* return value wait in `suspended`.
Locals ==
    [event |-> event, pc |-> pc, processedData |-> processedData,
     processingSteps |-> processingSteps, response |-> response]

\* Mutant: processedData declared at module level, one array for all invocations
ResumedArrayShared(locals) == processedData

\* The working array an invocation finds when it goes on: its own `let`
ResumedArray(locals) == locals.processedData

\* The running invocation stops and the other one goes on
Switch ==
    /\ suspended # <<>>
    /\ suspended' = <<Locals>>
    /\ event' = suspended[1].event
    /\ pc' = suspended[1].pc
    /\ processedData' = ResumedArray(suspended[1])
    /\ processingSteps' = suspended[1].processingSteps
    /\ response' = suspended[1].response
    /\ UNCHANGED <<result, cursor, received, fetchVars, collectVars>>

\* Each invocation gets MaxConcLen candles at ascending timestamps in 0..MaxConcTs
MaxConcLen == 3

MaxConcTs == 3

ConcurrentRequests ==
    {ProcessPost(ArrayOf(tss), o) :
        tss \in {t \in [1..MaxConcLen -> 0..MaxConcTs] :
                    \A i \in 1..(MaxConcLen - 1) : t[i] < t[i + 1]},
        o \in {NoOptions, Only("alignTimestamps", 0), Only("handleMissingValues", 0)}}

InitConcurrent ==
    /\ event \in ConcurrentRequests
    /\ pc = "start"
    /\ processedData = <<>>
    /\ processingSteps = <<>>
    /\ result = NoResult
    /\ cursor = 0
    /\ response = NoResponse
    /\ received = <<>>
    /\ suspended \in {<<[event |-> e, pc |-> "start", processedData |-> <<>>,
                          processingSteps |-> <<>>, response |-> NoResponse]>> :
                          e \in ConcurrentRequests}
    /\ NoFetch
    /\ NoCollection

SpecConcurrent == InitConcurrent /\ [][NextProcess \/ Switch]_vars

\* Timeframe inference: up to MaxWindowLen candles, each one or two after
\* the one before, aligned alone
MaxWindowLen == 12

Steps == {1, 2}

\* The timestamps 0, deltas[1], deltas[1] + deltas[2], ...
RECURSIVE Cumulated(_, _)
Cumulated(deltas, k) ==
    IF k = 0 THEN 0 ELSE Cumulated(deltas, k - 1) + deltas[k]

WindowRequests ==
    {ProcessPost(ArrayOf([i \in 1..(Len(deltas) + 1) |-> Cumulated(deltas, i - 1)]),
                 Only("alignTimestamps", 0)) :
        deltas \in SeqsUpTo(Steps, MaxWindowLen - 1)}

SpecWindow == InitWith(WindowRequests) /\ [][NextProcess]_vars

\* Constant closes: the indicator handler asked for the SMA of candles that
\* all close at the same price, under the default period and small ones
MaxFlatLen == 21

FlatCloses == {100, 7}

FlatArrays ==
    {[type |-> "array", items |-> [i \in 1..n |-> IndCandle(i, c)]] :
        n \in 1..MaxFlatLen, c \in FlatCloses}

SmaRequests ==
    {IndicatorsPost(d, l, q) :
        d \in FlatArrays,
        l \in {[type |-> "undefined"], [type |-> "array", items |-> <<"sma">>]},
        q \in {[type |-> "undefined"]} \cup {ParametersWith(p, 0, FALSE) : p \in 1..MaxPeriod}}

SpecSma == InitWith(SmaRequests) /\ [][NextIndicators]_vars

\* Price levels: batches in which the first two candles trade at a level of
\* their own, every candle with low <= open, close <= high
MaxLevelBatch == 11

\* <<open, high, low, close>>: the usual candle, one wholly above the others,
\* one wholly below them, one with a high wick, one with a low wick, one
\* with a low body under the usual high
Shapes == {<<15, 20, 10, 15>>, <<50, 60, 45, 55>>, <<5, 6, 0, 3>>,
           <<15, 60, 10, 15>>, <<15, 20, 0, 15>>, <<5, 20, 0, 3>>}

Shaped(i, shape) == Candle(i, shape[1], shape[2], shape[3], shape[4], 10)

LevelBatch(n, s1, s2) ==
    [type |-> "array",
     items |-> [i \in 1..n |->
                  IF i = 1 THEN Shaped(i, s1)
                  ELSE IF i = 2 THEN Shaped(i, s2)
                  ELSE Shaped(i, <<15, 20, 10, 15>>)]]

LevelRequests ==
    {ProcessPost(LevelBatch(n, s1, s2), Only("removeOutliers", t)) :
        n \in MinOutlierBatch..MaxLevelBatch, s1 \in Shapes, s2 \in Shapes,
        t \in 0..MaxThreshold}

SpecLevels == InitWith(LevelRequests) /\ [][NextProcess]_vars

-----------------------------------------------------------------------------
(* The fetch-market-data handler: netlify/functions/fetch-market-data.js   *)
(* A candle of the exchange is kept as its timestamp, candle[0].           *)

\* timeframeToMs on <<value, unit>>, the parsed parts of a timeframe string
timeframeToMs(timeframe) ==
    CASE timeframe[2] = "m" -> timeframe[1] * 60 * 1000
      [] timeframe[2] = "h" -> timeframe[1] * 60 * 60 * 1000
      [] timeframe[2] = "d" -> timeframe[1] * 24 * 60 * 60 * 1000
      [] timeframe[2] = "w" -> timeframe[1] * 7 * 24 * 60 * 60 * 1000

\* new Date(date).getTime() on the string toISOString writes
getTime(date) == date[2]

\* Most exchanges limit to 1000 candles per request
maxDataPoints == 1000

since == getTime(event.body.startDate)

until == getTime(event.body.endDate)

timeframeMs == timeframeToMs(event.body.timeframe)

intervalMs == maxDataPoints * timeframeMs

MissingParameters ==
    [statusCode |-> 400, body |-> [error |-> "Missing required parameters"]]

\* The fetch handler up to the loop: `!exchange || ...` is true of an absent
\* parameter, and initializeExchange throws on an exchange it does not know
FetchReceive ==
    /\ pc = "start"
    /\ event.fn = "fetch"
    /\ IF event.httpMethod = "OPTIONS" THEN response' = Preflight /\ pc' = "done"
       ELSE IF event.httpMethod # "POST" THEN response' = MethodNotAllowed /\ pc' = "done"
       ELSE IF event.body.json # "value" THEN response' = InternalError /\ pc' = "done"
       ELSE IF event.body.exchange = "" THEN response' = MissingParameters /\ pc' = "done"
       ELSE IF event.body.exchange \notin {"binance", "bybit", "coinbase", "kraken"}
            THEN response' = InternalError /\ pc' = "done"
       ELSE UNCHANGED response /\ pc' = "fetch"
    /\ currentSince' = IF pc' = "fetch" THEN since ELSE currentSince
    /\ allCandles' = <<>>
    /\ UNCHANGED <<event, processedData, processingSteps, result, cursor, received,
                   suspended, collectVars>>

\* currentSince after one round of the loop
NextSince(candles) ==
    IF Len(candles) > 0
    THEN LET lastCandleTime == candles[Len(candles)]
         IN  lastCandleTime + timeframeMs
    ELSE currentSince + intervalMs

\* One round of `while (currentSince < until)`: fetchOHLCV answers with one
\* of `chunks`, or throws when `throws` allows it
FetchChunk(chunks, throws) ==
    /\ pc = "fetch"
    /\ event.fn = "fetch"
    /\ currentSince < until
    /\ \/ /\ throws
          /\ response' = InternalError
          /\ pc' = "done"
          /\ UNCHANGED fetchVars
       \/ \E candles \in chunks :
              /\ allCandles' = allCandles \o candles
              /\ currentSince' = NextSince(candles)
              /\ UNCHANGED <<response, pc>>
    /\ UNCHANGED <<event, processedData, processingSteps, result, cursor, received,
                   suspended, collectVars>>

\* The loop is left, the candles are formatted and returned
FetchRespond ==
    /\ pc = "fetch"
    /\ event.fn = "fetch"
    /\ ~(currentSince < until)
    /\ response' =
          [statusCode |-> 200,
           body |-> [dataPoints |-> Len(allCandles),
                     ohlcv |-> [i \in 1..Len(allCandles) |->
                                   [timestamp |-> allCandles[i],
                                    datetime |-> toISOString(allCandles[i])]]]]
    /\ pc' = "done"
    /\ UNCHANGED <<event, processedData, processingSteps, result, cursor, received,
                   suspended, fetchVars, collectVars>>

\* Requests to fetch and answers of the exchange
MaxChunkLen == 2

MaxCandles == 3

\* The instants of the candles and of the range, in minutes
Minutes == {0, 1, 2, 1000, 2000, 2500}

Minute == 60 * 1000

FetchPost(exchange, timeframe, s, u) ==
    [fn |-> "fetch", httpMethod |-> "POST",
     body |-> [json |-> "value", exchange |-> exchange, timeframe |-> timeframe,
               startDate |-> toISOString(s * Minute), endDate |-> toISOString(u * Minute)]]

FetchRequests ==
    Malformed("fetch")
    \cup {FetchPost(x, <<1, "m">>, 0, 2) : x \in {"", "unknown"}}
    \cup {FetchPost("binance", <<v, "m">>, s, u) :
            v \in {1, 2}, s \in {0, 1}, u \in {2, 2500}}

\* Strictly ascending chunks of 0..MaxChunkLen candles at the given instants
ChunksAt(instants) ==
    {c \in SeqsUpTo(instants, MaxChunkLen) : \A i \in 1..(Len(c) - 1) : c[i] < c[i + 1]}

\* Any chunk, as long as the response still fits the memory of the function
AnyChunks ==
    {c \in ChunksAt({m * Minute : m \in Minutes}) : Len(allCandles) + Len(c) <= MaxCandles}

\* The chunks of an exchange that returns no candle before the `since` it is given
ChunksSince == {c \in AnyChunks : \A i \in 1..Len(c) : c[i] >= currentSince}

FetchAny == FetchChunk(AnyChunks, TRUE)

FetchSince == FetchChunk(ChunksSince, TRUE)

SpecFetch == InitWith(FetchRequests) /\ [][FetchReceive \/ FetchAny \/ FetchRespond]_vars

SpecFetchSince == InitWith(FetchRequests) /\ [][FetchReceive \/ FetchSince \/ FetchRespond]_vars

-----------------------------------------------------------------------------
(* The scheduled collection handler (collect-market-data, in Dockerfile).  *)
(* Every awaited call either returns or throws; a job is its index in      *)
(* activeJobs.                                                             *)

\* The awaited calls of the inner try block, in order
JobSteps == <<"running", "fetch", "process", "indicators", "store", "completed">>

StepAfter(step) ==
    CASE step = "running" -> "fetch"
      [] step = "fetch" -> "process"
      [] step = "process" -> "indicators"
      [] step = "indicators" -> "store"
      [] step = "store" -> "completed"

\* The position after the body of the for-of loop
AfterJob == IF job < event.activeJobs THEN "running" ELSE "respond"

\* getActiveJobs, then the first round of the loop if there is a job
CollectStart ==
    /\ pc = "start"
    /\ event.fn = "collect"
    /\ \/ /\ response' = InternalError          \* getActiveJobs throws: outer catch
          /\ pc' = "done"
          /\ UNCHANGED job
       \/ /\ job' = 1
          /\ pc' = IF event.activeJobs >= 1 THEN "running" ELSE "respond"
          /\ UNCHANGED response
    /\ UNCHANGED <<event, processedData, processingSteps, result, cursor, received,
                   suspended, fetchVars, lastStatus, results, thrown>>

\* await updateJobStatus(job.id, 'running')
UpdateRunning ==
    /\ pc = "running"
    /\ event.fn = "collect"
    /\ \/ lastStatus' = [lastStatus EXCEPT ![job] = "running"] /\ pc' = "fetch" /\ UNCHANGED thrown
       \/ thrown' = "running" /\ pc' = "catch" /\ UNCHANGED lastStatus
    /\ UNCHANGED <<event, processedData, processingSteps, result, cursor, response, received,
                   suspended, fetchVars, results, job>>

\* await fetchMarketData / processMarketData / calculateIndicators / storeMarketData
JobCall(step) ==
    /\ pc = step
    /\ event.fn = "collect"
    /\ \/ pc' = StepAfter(step) /\ UNCHANGED thrown
       \/ thrown' = step /\ pc' = "catch"
    /\ UNCHANGED <<event, processedData, processingSteps, result, cursor, response, received,
                   suspended, fetchVars, lastStatus, results, job>>

FetchMarketData == JobCall("fetch")

ProcessMarketData == JobCall("process")

CalculateIndicators == JobCall("indicators")

StoreMarketData == JobCall("store")

\* await updateJobStatus(job.id, 'completed', ...); results.push(...)
UpdateCompleted ==
    /\ pc = "completed"
    /\ event.fn = "collect"
    /\ \/ /\ lastStatus' = [lastStatus EXCEPT ![job] = "completed"]
          /\ results' = Append(results, [jobId |-> job, status |-> "completed"])
          /\ job' = job + 1
          /\ pc' = AfterJob
          /\ UNCHANGED thrown
       \/ /\ thrown' = "completed"
          /\ pc' = "catch"
          /\ UNCHANGED <<lastStatus, results, job>>
    /\ UNCHANGED <<event, processedData, processingSteps, result, cursor, response, received,
                   suspended, fetchVars>>

\* What await updateJobStatus(job.id, 'failed', ...) can do in the catch block
CatchOutcomes == {"returns", "throws"}

\* The catch block of the job: its own updateJobStatus is not in a try, so
\* its error leaves the loop for the outer catch
CatchJob ==
    /\ pc = "catch"
    /\ event.fn = "collect"
    /\ \E outcome \in CatchOutcomes :
          IF outcome = "returns"
          THEN /\ lastStatus' = [lastStatus EXCEPT ![job] = "failed"]
               /\ results' = Append(results, [jobId |-> job, status |-> "failed", error |-> thrown])
               /\ job' = job + 1
               /\ pc' = AfterJob
               /\ UNCHANGED response
          ELSE /\ response' = InternalError
               /\ pc' = "done"
               /\ UNCHANGED <<lastStatus, results, job>>
    /\ UNCHANGED <<event, processedData, processingSteps, result, cursor, received,
                   suspended, fetchVars, thrown>>

CollectRespond ==
    /\ pc = "respond"
    /\ event.fn = "collect"
    /\ response' = [statusCode |-> 200,
                    body |-> [message |-> "Scheduled market data collection completed",
                              jobsProcessed |-> event.activeJobs,
                              results |-> results]]
    /\ pc' = "done"
    /\ UNCHANGED <<event, processedData, processingSteps, result, cursor, received,
                   suspended, fetchVars, collectVars>>

NextCollect ==
    \/ CollectStart
    \/ UpdateRunning
    \/ FetchMarketData
    \/ ProcessMarketData
    \/ CalculateIndicators
    \/ StoreMarketData
    \/ UpdateCompleted
    \/ CatchJob
    \/ CollectRespond

\* The scheduled jobs with status 'active', none of them run before
MaxJobs == 3

InitCollect ==
    /\ event \in {[fn |-> "collect", activeJobs |-> n] : n \in 0..MaxJobs}
    /\ pc = "start"
    /\ processedData = <<>>
    /\ processingSteps = <<>>
    /\ result = NoResult
    /\ cursor = 0
    /\ response = NoResponse
    /\ received = <<>>
    /\ suspended = <<>>
    /\ NoFetch
    /\ lastStatus = [j \in 1..event.activeJobs |-> "none"]
    /\ results = <<>>
    /\ job = 0
    /\ thrown = ""

SpecCollect == InitCollect /\ [][NextCollect]_vars

-----------------------------------------------------------------------------
(* Claims *)

\* A POST to process whose body carries an array and whose options, if any,
\* are an object
ValidProcessPost ==
    /\ event.fn = "process"
    /\ event.httpMethod = "POST"
    /\ event.body.json = "value"
    /\ event.body.data.type = "array"
    /\ event.body.options.type # "null"

StageOrder == <<"alignTimestamps", "handleMissingValues", "removeOutliers", "normalize">>

\* What the claim calls enabled
WantedStage(stage) ==
    LET given == IF event.body.options.type = "undefined" THEN "undefined"
                 ELSE event.body.options[stage]
    IN  IF stage = "normalize" THEN given = "true" ELSE given # "false"

WantedSteps(k) == SelectSeq(SubSeq(StageOrder, 1, k), WantedStage)

\* The stages of `steps`, each applied to the output of the one before
RECURSIVE Chained(_, _)
Chained(steps, data) ==
    IF steps = <<>> THEN data
    ELSE LET before == Chained(SubSeq(steps, 1, Len(steps) - 1), data)
             last == steps[Len(steps)]
         IN  CASE last = "alignTimestamps" -> alignTimestamps(before)
               [] last = "handleMissingValues" -> handleMissingValues(before)
               [] last = "removeOutliers" -> removeOutliers(before, Threshold)
               [] last = "normalize" -> normalizeData(before)

\* How many of the four blocks the handler has passed
BlocksPassed ==
    CASE pc = "alignTimestamps" -> 0
      [] pc = "handleMissingValues" -> 1
      [] pc = "removeOutliers" -> 2
      [] pc = "normalize" -> 3
      [] pc \in {"respond", "done"} -> 4

\* C1: for a valid POST to process the four blocks are passed in the order
\* alignTimestamps, handleMissingValues, removeOutliers, normalize; at every
\* point the steps recorded so far are exactly the enabled ones among the
\* blocks passed (the first three unless their option is false, normalize
\* only if its option is true), the working array is those stages chained,
\* and the response returns both.
C1_StagesInFixedOrder ==
    (ValidProcessPost /\ pc # "start") =>
        /\ processingSteps = WantedSteps(BlocksPassed)
        /\ processedData = Chained(WantedSteps(BlocksPassed), event.body.data.items)
        /\ pc = "done" =>
              /\ response.statusCode = 200
              /\ response.body.processingSteps = WantedSteps(4)
              /\ response.body.data =
                    StringifyCandles(Chained(WantedSteps(4), event.body.data.items))

\* C1 witness: a response after all four stages ran in which alignment and
\* gap filling both changed the data
C1_Witness ==
    /\ ValidProcessPost
    /\ pc = "done"
    /\ response.body.processingSteps = StageOrder
    /\ response.body.processedCount = 2
    /\ response.body.data[1].timestamp # event.body.data.items[1].timestamp
    /\ "originalTimestamp" \in DOMAIN response.body.data[1]

\* A POST whose body parses but carries no array under `data`
DataMissingOrNotArray ==
    /\ event.httpMethod = "POST"
    /\ \/ event.body.json = "null"
       \/ event.body.json = "value" /\ event.body.data.type # "array"

\* C2 as claimed: every POST to process or calculateIndicators whose data is
\* missing or not an array is answered 400 with the message naming the
\* expected shape, and nothing is computed.
C2_MissingDataIs400 ==
    (pc = "done" /\ DataMissingOrNotArray) =>
        /\ response.statusCode = 400
        /\ response.body.required = "Array of OHLCV data objects"
        /\ processingSteps = <<>>
        /\ result = NoResult

\* The response to a POST that enabled `stage` alone
Ran(stage) ==
    /\ ValidProcessPost
    /\ pc = "done"
    /\ response.statusCode = 200
    /\ response.body.processingSteps = <<stage>>

\* The timeframe handleMissingValues infers: from the input in timestamp order
InferredTimeframe == getTimeframeFromData(SortByTimestamp(event.body.data.items))

\* C3: for an input of two or more candles with a detectable timeframe, the
\* output of handleMissingValues is strictly ascending by timestamp and every
\* two consecutive timestamps are exactly the inferred timeframe apart.
C3_EvenlySpacedAfterFill ==
    (/\ Ran("handleMissingValues")
     /\ Len(event.body.data.items) >= 2
     /\ ~Falsy(InferredTimeframe)) =>
        LET out == response.body.data
        IN  /\ InferredTimeframe[1] > 0
            /\ \A i \in 1..(Len(out) - 1) :
                   /\ out[i].timestamp < out[i + 1].timestamp
                   /\ out[i + 1].timestamp - out[i].timestamp = InferredTimeframe[1]

\* C3 witness: an unsorted input with a gap, filled by a synthetic candle
C3_Witness ==
    /\ Ran("handleMissingValues")
    /\ Len(event.body.data.items) >= 3
    /\ ~Falsy(InferredTimeframe)
    /\ event.body.data.items[1].timestamp > event.body.data.items[2].timestamp
    /\ \E i \in 1..Len(response.body.data) : "interpolated" \in DOMAIN response.body.data[i]

\* A POST to calculateIndicators whose body carries an array of candles, a
\* list of indicator names or none, and a parameters object or none
ValidIndicatorsPost ==
    /\ event.fn = "indicators"
    /\ event.httpMethod = "POST"
    /\ event.body.json = "value"
    /\ event.body.data.type = "array"
    /\ event.body.indicators.type \in {"undefined", "array"}
    /\ event.body.parameters.type \in {"undefined", "object"}

Answered == ValidIndicatorsPost /\ pc = "done" /\ response.statusCode = 200

\* The supported indicators the request names
RequestedSupported ==
    {toLowerCase(IndicatorList[i]) : i \in 1..Len(IndicatorList)} \cap Supported

\* The periods of the request, defaults applied
SmaP == Parameter("smaPeriod", DefaultSmaPeriod)
EmaP == Parameter("emaPeriod", DefaultEmaPeriod)
RsiP == Parameter("rsiPeriod", DefaultRsiPeriod)
MacdSlowP == Parameter("macdSlowPeriod", DefaultMacdSlowPeriod)
MacdSignalP == Parameter("macdSignalPeriod", DefaultMacdSignalPeriod)
BollingerP == Parameter("bollingerPeriod", DefaultBollingerPeriod)
AtrP == Parameter("atrPeriod", DefaultAtrPeriod)
StochP == Parameter("stochasticPeriod", DefaultStochasticPeriod)
StochSignalP == Parameter("stochasticSignalPeriod", DefaultStochasticSignalPeriod)

\* The fewest candles for which an indicator computes anything
MinCandles(name) ==
    CASE name = "sma" -> SmaP
      [] name = "ema" -> EmaP
      [] name = "rsi" -> RsiP + 1
      [] name = "macd" -> MacdSlowP + MacdSignalP
      [] name = "bollinger" -> BollingerP
      [] name = "atr" -> AtrP + 1
      [] name = "stochastic" -> StochP
      [] name \in {"obv", "returns"} -> 2

\* The number of leading positions of a series that have no value yet
Lookback(name, sub) ==
    CASE name = "sma" -> SmaP - 1
      [] name = "ema" -> EmaP - 1
      [] name = "rsi" -> RsiP
      [] name = "macd" /\ sub = "macd" -> MacdSlowP - 1
      [] name = "macd" /\ sub # "macd" -> MacdSlowP - 1 + MacdSignalP - 1
      [] name = "bollinger" -> BollingerP - 1
      [] name = "atr" -> AtrP
      [] name = "stochastic" /\ sub = "k" -> StochP - 1
      [] name = "stochastic" /\ sub = "d" -> StochP - 1 + StochSignalP - 1
      [] name = "obv" -> 0
      [] name = "returns" -> 1

\* The series of an indicators object: <<indicator, sub-series name, values>>
AllSeries(indicators) ==
    {<<n, "", indicators[n].values>> : n \in {m \in DOMAIN indicators : indicators[m].array}}
    \cup UNION {{<<n, sub, indicators[n].subs[sub]>> : sub \in DOMAIN indicators[n].subs} :
                 n \in {m \in DOMAIN indicators : ~indicators[m].array}}

InputLength == Len(event.body.data.items)

\* C4 as claimed: every series of every requested supported indicator is as
\* long as the input and null before its lookback.
C4_EverySeriesAsLongAsInput ==
    Answered =>
        \A s \in AllSeries(response.body.indicators) :
            /\ Len(s[3]) = InputLength
            /\ \A i \in 1..Len(s[3]) : i <= Lookback(s[1], s[2]) => s[3][i] = Null

\* C4 amended: every series of every requested supported indicator is as long
\* as the input, with null in the positions before its lookback, when the
\* input has at least the indicator's minimum number of candles, and is empty
\* when the input is shorter.
C4_SeriesAsLongAsInputOrEmpty ==
    Answered =>
        /\ DOMAIN response.body.indicators = RequestedSupported
        /\ \A s \in AllSeries(response.body.indicators) :
              IF InputLength >= MinCandles(s[1])
              THEN /\ Len(s[3]) = InputLength
                   /\ \A i \in 1..Len(s[3]) : i <= Lookback(s[1], s[2]) => s[3][i] = Null
              ELSE s[3] = <<>>

\* C4 witness: MACD on enough candles, its signal line null through the lookback
C4_Witness ==
    /\ Answered
    /\ "macd" \in DOMAIN response.body.indicators
    /\ "sma" \in DOMAIN response.body.indicators
    /\ InputLength >= MinCandles("macd")
    /\ Lookback("macd", "signal") = 2
    /\ response.body.indicators["macd"].subs["signal"][2] = Null
    /\ response.body.indicators["macd"].subs["signal"][3] # Null
    /\ response.body.indicators["macd"].subs["macd"][2] # Null
    /\ Len(response.body.indicators["sma"].values) = InputLength

\* C5: a request with an array of candles is answered 200; each requested
\* supported indicator is in the result; its series are as long as the input
\* when the input has the indicator's minimum number of candles, and empty or
\* all null when the input is shorter (the empty input included).
C5_LengthOrEmptyAndStatus200 ==
    (ValidIndicatorsPost /\ pc = "done") =>
        /\ response.statusCode = 200
        /\ RequestedSupported \subseteq DOMAIN response.body.indicators
        /\ \A s \in AllSeries(response.body.indicators) :
              IF InputLength >= MinCandles(s[1])
              THEN Len(s[3]) = InputLength
              ELSE \A i \in 1..Len(s[3]) : s[3][i] = Null

\* C5 witness: one response in which the input is long enough for ATR and
\* too short for MACD
C5_Witness ==
    /\ Answered
    /\ {"atr", "macd", "stochastic"} \subseteq DOMAIN response.body.indicators
    /\ InputLength >= MinCandles("atr")
    /\ InputLength < MinCandles("macd")
    /\ Len(response.body.indicators["atr"].values) = InputLength
    /\ response.body.indicators["macd"].subs["macd"] = <<>>

\* C9: for two or more candles OBV[0] = 0 and each step adds the candle's
\* volume if the close rose, subtracts it if the close fell, and adds nothing
\* if the close is unchanged.
C9_ObvSteps ==
    (Answered /\ "obv" \in DOMAIN response.body.indicators /\ InputLength >= 2) =>
        LET obv == response.body.indicators["obv"].values
            data == event.body.data.items
        IN  /\ Len(obv) = InputLength
            /\ obv[1] = Int1(0)
            /\ \A i \in 2..InputLength :
                   obv[i][1] - obv[i - 1][1] =
                       IF data[i].close[1] > data[i - 1].close[1] THEN data[i].volume[1]
                       ELSE IF data[i].close[1] < data[i - 1].close[1] THEN -data[i].volume[1]
                       ELSE 0

\* C9 witness: a rise, an unchanged close and a fall in one input
C9_Witness ==
    /\ Answered
    /\ "obv" \in DOMAIN response.body.indicators
    /\ InputLength = 4
    /\ LET data == event.body.data.items
       IN  /\ data[2].close[1] > data[1].close[1]
           /\ data[3].close[1] = data[2].close[1]
           /\ data[4].close[1] < data[3].close[1]
    /\ response.body.indicators["obv"].values[4] # response.body.indicators["obv"].values[2]

\* The batch statistics of the request's candles
UpperBound == ClampBound(event.body.data.items, "high", 1, Threshold)

LowerBound == ClampBound(event.body.data.items, "low", -1, Threshold)

OutlierBatchAnswered ==
    /\ Ran("removeOutliers")
    /\ Len(event.body.data.items) >= 10
    /\ Len(response.body.data) = Len(event.body.data.items)

\* C6 as claimed: on a batch of 10 or more candles no output high is above
\* meanHigh + T*stdDevHigh and no output low is below meanLow - T*stdDevLow.
C6_HighAndLowWithinBounds ==
    (Ran("removeOutliers") /\ Len(event.body.data.items) >= 10) =>
        \A i \in 1..Len(response.body.data) :
            /\ NumLeq(response.body.data[i].high, UpperBound)
            /\ NumLeq(LowerBound, response.body.data[i].low)

\* C6 amended: on a batch of 10 or more candles no output high is above
\* meanHigh + T*stdDevHigh, and no output low is below meanLow - T*stdDevLow
\* on a candle whose input high is within T standard deviations of the mean
\* high; the statistics are those of the input batch.
C6_HighWithinBoundLowUnlessHighFlagged ==
    (Ran("removeOutliers") /\ Len(event.body.data.items) >= 10) =>
        /\ Len(response.body.data) = Len(event.body.data.items)
        /\ \A i \in 1..Len(response.body.data) :
              /\ NumLeq(response.body.data[i].high, UpperBound)
              /\ NumLeq(event.body.data.items[i].high, UpperBound)
                    /\ NumLeq(ClampBound(event.body.data.items, "high", -1, Threshold),
                              event.body.data.items[i].high)
                 => NumLeq(LowerBound, response.body.data[i].low)

\* C6 witness: one candle's high clamped and another candle's low clamped
C6_Witness ==
    /\ OutlierBatchAnswered
    /\ \E i, j \in 1..Len(response.body.data) :
          /\ response.body.data[i].high = UpperBound
          /\ event.body.data.items[i].high # UpperBound
          /\ response.body.data[j].low = LowerBound
          /\ event.body.data.items[j].low # LowerBound

\* C7: aligning the output of alignTimestamps again, the timeframe inferred
\* anew, gives the same candles in every field.
C7_AlignTwiceIsAlignOnce ==
    (/\ Ran("alignTimestamps")
     /\ Len(received) = 1
     /\ received[1].body.processingSteps = <<"alignTimestamps">>) =>
        response.body.data = received[1].body.data

NormalizedName(field) ==
    CASE field = "open" -> "normalizedOpen"
      [] field = "high" -> "normalizedHigh"
      [] field = "low" -> "normalizedLow"
      [] field = "close" -> "normalizedClose"
      [] field = "volume" -> "normalizedVolume"

\* The values of a field in the request's batch
FieldValues(field) ==
    {event.body.data.items[i][field][1] : i \in 1..Len(event.body.data.items)}

BatchMax(field) == CHOOSE m \in FieldValues(field) : \A v \in FieldValues(field) : v <= m

BatchMin(field) == CHOOSE m \in FieldValues(field) : \A v \in FieldValues(field) : m <= v

\* C8: on a non-empty batch each normalized value p/q of each of open, high,
\* low, close and volume has 0 <= p <= q; the candle holding the batch maximum
\* has p = q when max > min; every candle has p = 0 when min = max.
C8_NormalizedInUnitInterval ==
    (Ran("normalize") /\ Len(event.body.data.items) >= 1) =>
        /\ Len(response.body.data) = Len(event.body.data.items)
        /\ \A i \in 1..Len(response.body.data) :
           \A field \in {"open", "high", "low", "close", "volume"} :
              LET value == response.body.data[i][NormalizedName(field)]
                  x == event.body.data.items[i][field][1]
              IN  /\ Len(value) = 2
                  /\ value[2] > 0
                  /\ 0 <= value[1]
                  /\ value[1] <= value[2]
                  /\ (x = BatchMax(field) /\ BatchMax(field) > BatchMin(field))
                        => value[1] = value[2]
                  /\ BatchMax(field) = BatchMin(field) => value[1] = 0

\* C8 witness: a batch with a constant field and a field with three values
C8_Witness ==
    /\ Ran("normalize")
    /\ Len(event.body.data.items) = 3
    /\ BatchMax("volume") = BatchMin("volume")
    /\ BatchMax("open") - BatchMin("open") = 2
    /\ \E i \in 1..3 : response.body.data[i].normalizedOpen = <<1, 2>>
    /\ \E i \in 1..3 : response.body.data[i].normalizedOpen = <<2, 2>>
    /\ response.body.data[1].normalizedVolume = <<0, 1>>

CombineRequested ==
    /\ event.body.parameters.type = "object"
    /\ event.body.parameters.combineWithData

\* The field of a combined record that carries a series
FieldName(s) == IF s[2] = "" THEN s[1] ELSE SubKey(s[1], s[2])

\* C10 as claimed: combinedData has one record per candle, in order; record
\* i keeps candle i's fields and has, for every computed series, a field
\* holding the series' value at index i.
C10_EveryRecordHasEveryField ==
    (Answered /\ CombineRequested) =>
        /\ "combinedData" \in DOMAIN response.body
        /\ Len(response.body.combinedData) = InputLength
        /\ \A i \in 1..InputLength :
              LET record == response.body.combinedData[i]
                  candle == event.body.data.items[i]
              IN  /\ \A k \in DOMAIN candle : k \in DOMAIN record /\ record[k] = candle[k]
                  /\ \A s \in AllSeries(response.body.indicators) :
                        /\ FieldName(s) \in DOMAIN record
                        /\ i <= Len(s[3])
                        /\ record[FieldName(s)] = s[3][i]

\* C10 amended: combinedData has one record per candle, in order; record i
\* keeps candle i's fields and has, for every computed series that has a
\* value at index i (null included), a field named after the indicator, or
\* {indicator}_{subkey}, holding that value, and no field for a series that
\* has no value at index i.
C10_FieldsWhereSeriesHasValue ==
    (Answered /\ CombineRequested) =>
        /\ "combinedData" \in DOMAIN response.body
        /\ Len(response.body.combinedData) = InputLength
        /\ \A i \in 1..InputLength :
              LET record == response.body.combinedData[i]
                  candle == event.body.data.items[i]
                  series == AllSeries(result.indicators)
              IN  /\ \A k \in DOMAIN candle : k \in DOMAIN record /\ record[k] = candle[k]
                  /\ DOMAIN record \subseteq DOMAIN candle \cup {FieldName(s) : s \in series}
                  /\ \A s \in series :
                        IF i > Len(s[3]) \/ s[3][i] = Undefined
                        THEN FieldName(s) \notin DOMAIN record
                        ELSE /\ FieldName(s) \in DOMAIN record
                             /\ record[FieldName(s)] = s[3][i]

\* C10 witness: a record with an SMA value, a null RSI, a MACD value and no
\* field for the MACD signal line
C10_Witness ==
    /\ Answered
    /\ CombineRequested
    /\ InputLength = 4
    /\ {"sma", "rsi", "macd"} \subseteq DOMAIN result.indicators
    /\ LET record == response.body.combinedData[2]
       IN  /\ "sma" \in DOMAIN record /\ record["sma"] # Null
           /\ "macd_macd" \in DOMAIN record /\ record["macd_macd"] # Null
           /\ "macd_signal" \notin DOMAIN record
    /\ response.body.combinedData[1]["rsi"] = Null
    /\ response.body.combinedData[3]["macd_signal"] # Null

\* C11: a request naming indicators that are not among the nine supported is
\* answered 200; result.indicators has exactly the supported names requested,
\* each holding what the indicator computes from the data alone.
C11_UnknownNamesIgnored ==
    (ValidIndicatorsPost /\ pc = "done") =>
        /\ response.statusCode = 200
        /\ DOMAIN response.body.indicators = RequestedSupported
        /\ \A name \in DOMAIN response.body.indicators :
              response.body.indicators[name] =
                  StringifyEntry(Calculate(name, event.body.data.items))

\* C11 witness: an unknown name between two supported ones, both computed
C11_Witness ==
    /\ Answered
    /\ event.body.indicators.type = "array"
    /\ \E i \in 1..Len(event.body.indicators.items) :
          toLowerCase(event.body.indicators.items[i]) \notin Supported
    /\ DOMAIN response.body.indicators = {"obv", "macd"}
    /\ InputLength >= 2
    /\ Len(response.body.indicators["obv"].values) = InputLength

\* Fewer than 10 candles, in ascending order one timeframe apart, every
\* timestamp a multiple of the timeframe
OnGrid(data) ==
    /\ Len(data) < 10
    /\ Len(data) >= 2 =>
          \E tf \in 1..(data[2].timestamp - data[1].timestamp) :
              \A i \in 1..Len(data) :
                  /\ data[i].timestamp % tf = 0
                  /\ i > 1 => data[i].timestamp - data[i - 1].timestamp = tf

DefaultOptions ==
    \/ event.body.options.type = "undefined"
    \/ /\ event.body.options.type = "object"
       /\ \A stage \in {"alignTimestamps", "handleMissingValues", "removeOutliers", "normalize"} :
             event.body.options[stage] = "undefined"
       /\ event.body.options.outlierThreshold = 0

\* C12: with default options, fewer than 10 candles already on the grid of
\* their timeframe come back with the same timestamps and OHLCV values, none
\* marked interpolated or outlierCorrected; processedCount = originalCount and
\* processingSteps has alignTimestamps and handleMissingValues.
C12_GridInputUnchanged ==
    (/\ ValidProcessPost
     /\ DefaultOptions
     /\ pc = "done"
     /\ OnGrid(event.body.data.items)) =>
        /\ response.statusCode = 200
        /\ response.body.processedCount = response.body.originalCount
        /\ response.body.originalCount = Len(event.body.data.items)
        /\ Len(response.body.data) = Len(event.body.data.items)
        /\ \A i \in 1..Len(response.body.data) :
              LET out == response.body.data[i]
                  in == event.body.data.items[i]
              IN  /\ \A k \in {"timestamp", "open", "high", "low", "close", "volume"} :
                         out[k] = in[k]
                  /\ "interpolated" \notin DOMAIN out
                  /\ "outlierCorrected" \notin DOMAIN out
        /\ \E i, j \in 1..Len(response.body.processingSteps) :
              /\ response.body.processingSteps[i] = "alignTimestamps"
              /\ response.body.processingSteps[j] = "handleMissingValues"

\* C12 witness: nine candles two apart, sent without datetime, returned
C12_Witness ==
    /\ ValidProcessPost
    /\ DefaultOptions
    /\ pc = "done"
    /\ OnGrid(event.body.data.items)
    /\ Len(event.body.data.items) = 9
    /\ event.body.data.items[1].timestamp = 2
    /\ event.body.data.items[9].timestamp = 18
    /\ "datetime" \notin DOMAIN event.body.data.items[1]
    /\ response.body.processedCount = 9
    /\ response.body.data[9].timestamp = 18

\* The request's candles all share the value of a field
Flat(field) ==
    \A i, j \in 1..Len(event.body.data.items) :
        event.body.data.items[i][field] = event.body.data.items[j][field]

\* C13: an array of candles with options that are absent or an object is
\* answered 200 whatever its size; and a stage that runs alone passes a
\* batch it cannot work on through: alignTimestamps and handleMissingValues
\* on fewer than 2 candles or equal timestamps, removeOutliers on fewer than
\* 10 candles or, field by field, on equal highs or equal lows.
C13_DegenerateInputsPassThrough ==
    (ValidProcessPost /\ pc = "done") =>
        LET in == event.body.data.items
            out == response.body.data
        IN  /\ response.statusCode = 200
            /\ response.body.originalCount = Len(in)
            /\ Len(in) = 0 => out = <<>>
            /\ (/\ \/ Ran("alignTimestamps")
                   \/ Ran("handleMissingValues")
                /\ Len(in) < 2 \/ Flat("timestamp")) => out = in
            /\ (Ran("removeOutliers") /\ Len(in) < 10) => out = in
            /\ (Ran("removeOutliers") /\ Flat("high")) =>
                  /\ Len(out) = Len(in)
                  /\ \A i \in 1..Len(out) : out[i].high = in[i].high
            /\ (Ran("removeOutliers") /\ Flat("low")) =>
                  /\ Len(out) = Len(in)
                  /\ \A i \in 1..Len(out) : out[i].low = in[i].low
            /\ (Ran("removeOutliers") /\ Flat("high") /\ Flat("low")) => out = in

\* C13 witness: ten candles at one timestamp with equal highs, all four
\* stages run, answered 200 with the ten candles
C13_Witness ==
    /\ ValidProcessPost
    /\ pc = "done"
    /\ Len(event.body.data.items) = 10
    /\ Flat("timestamp")
    /\ Flat("high")
    /\ ~Flat("low")
    /\ response.statusCode = 200
    /\ Len(response.body.processingSteps) = 4
    /\ response.body.processedCount = 10

\* The response of the running invocation had it run alone on its request
AloneResponse ==
    LET alone == Chained(WantedSteps(4), event.body.data.items)
    IN  [statusCode |-> 200,
         body |-> [originalCount |-> Len(event.body.data.items),
                   processedCount |-> Len(alone),
                   processingSteps |-> WantedSteps(4),
                   data |-> StringifyCandles(alone)]]

\* C14: however two concurrent invocations of process interleave, each one
\* returns what it would return running alone on its own data and options,
\* and two invocations with the same data and options return the same.
C14_InvocationsIndependent ==
    /\ (ValidProcessPost /\ pc = "done") => response = AloneResponse
    /\ (/\ pc = "done"
        /\ suspended # <<>>
        /\ suspended[1].pc = "done"
        /\ suspended[1].event = event) => suspended[1].response = response

\* C14 witness: one invocation has returned gap-filled data while the other,
\* on another request, has aligned its timestamps and is not finished
C14_Witness ==
    /\ ValidProcessPost
    /\ pc = "done"
    /\ response.body.processedCount > response.body.originalCount
    /\ suspended # <<>>
    /\ suspended[1].pc = "handleMissingValues"
    /\ suspended[1].event # event
    /\ suspended[1].processingSteps = <<"alignTimestamps">>
    /\ suspended[1].processedData # suspended[1].event.body.data.items

\* The request's candles at a timestamp
InputAt(timestamp) ==
    {event.body.data.items[i] :
        i \in {j \in 1..Len(event.body.data.items) :
                  event.body.data.items[j].timestamp = timestamp}}

FirstTimestamp ==
    CHOOSE t \in {event.body.data.items[i].timestamp : i \in 1..Len(event.body.data.items)} :
        \A i \in 1..Len(event.body.data.items) : t <= event.body.data.items[i].timestamp

LastTimestamp ==
    CHOOSE t \in {event.body.data.items[i].timestamp : i \in 1..Len(event.body.data.items)} :
        \A i \in 1..Len(event.body.data.items) : t >= event.body.data.items[i].timestamp

\* C15: with a detectable timeframe the output of handleMissingValues has one
\* candle per grid timestamp first, first + timeframe, ... up to the last; a
\* grid timestamp with an input candle holds that candle as it was sent; one
\* without holds a candle whose open, high, low and close are the close of
\* the output candle before it, with volume 0 and interpolated = true.
C15_ForwardFillFromPreviousClose ==
    (/\ Ran("handleMissingValues")
     /\ Len(event.body.data.items) >= 2
     /\ ~Falsy(InferredTimeframe)) =>
        LET out == response.body.data
            tf == InferredTimeframe[1]
        IN  /\ Len(out) = (LastTimestamp - FirstTimestamp) \div tf + 1
            /\ \A k \in 1..Len(out) :
                  LET timestamp == FirstTimestamp + (k - 1) * tf
                  IN  /\ out[k].timestamp = timestamp
                      /\ IF InputAt(timestamp) # {}
                         THEN out[k] \in InputAt(timestamp)
                         ELSE /\ k > 1
                              /\ out[k].open = out[k - 1].close
                              /\ out[k].high = out[k - 1].close
                              /\ out[k].low = out[k - 1].close
                              /\ out[k].close = out[k - 1].close
                              /\ out[k].volume = Int1(0)
                              /\ out[k].interpolated = TRUE

\* C15 witness: two synthetic candles in a row, then an input candle
C15_Witness ==
    /\ Ran("handleMissingValues")
    /\ \E k \in 2..(Len(response.body.data) - 2) :
          /\ "interpolated" \notin DOMAIN response.body.data[k - 1]
          /\ "interpolated" \in DOMAIN response.body.data[k]
          /\ "interpolated" \in DOMAIN response.body.data[k + 1]
          /\ "interpolated" \notin DOMAIN response.body.data[k + 2]
          /\ response.body.data[k + 1].open = response.body.data[k - 1].close

\* C16: on fewer than 2 candles getTimeframeFromData returns null, and
\* alignTimestamps and handleMissingValues, each run alone, return the input:
\* the same candles in the same order with the same fields.
C16_ShortInputPassesThrough ==
    (/\ ValidProcessPost
     /\ Len(event.body.data.items) < 2) =>
        /\ getTimeframeFromData(event.body.data.items) = Undefined
        /\ (Ran("alignTimestamps") \/ Ran("handleMissingValues")) =>
              /\ response.body.data = event.body.data.items
              /\ response.body.processedCount = Len(event.body.data.items)

\* C16 witness: a single candle off any grid, returned by handleMissingValues
C16_Witness ==
    /\ Ran("handleMissingValues")
    /\ Len(event.body.data.items) = 1
    /\ event.body.data.items[1].timestamp = 1
    /\ response.body.data = event.body.data.items

\* The timestamp deltas of the first 9 consecutive pairs at most
WindowDeltas ==
    LET data == event.body.data.items
        pairs == IF Len(data) > 10 THEN 9 ELSE Len(data) - 1
    IN  [k \in 1..pairs |-> data[k + 1].timestamp - data[k].timestamp]

Occurrences(deltas, d) == Cardinality({k \in 1..Len(deltas) : deltas[k] = d})

\* C17: for two or more candles getTimeframeFromData returns one of the
\* deltas of the first 9 consecutive pairs at most, none of which occurs
\* more often; the candles after the 10th do not change it; and it is the
\* timeframe alignTimestamps floors every timestamp to.
C17_ModeOfFirstNineDeltas ==
    (ValidProcessPost /\ Len(event.body.data.items) >= 2) =>
        LET data == event.body.data.items
            timeframe == getTimeframeFromData(data)
        IN  /\ Len(timeframe) = 1
            /\ \E k \in 1..Len(WindowDeltas) : WindowDeltas[k] = timeframe[1]
            /\ \A k \in 1..Len(WindowDeltas) :
                   Occurrences(WindowDeltas, WindowDeltas[k])
                       <= Occurrences(WindowDeltas, timeframe[1])
            /\ Len(data) > 10 => getTimeframeFromData(SubSeq(data, 1, 10)) = timeframe
            /\ Ran("alignTimestamps") =>
                  /\ Len(response.body.data) = Len(data)
                  /\ \A i \in 1..Len(data) :
                        response.body.data[i].timestamp =
                            (data[i].timestamp \div timeframe[1]) * timeframe[1]

\* C17 witness: twelve candles whose first nine deltas are mostly 2 and whose
\* eleven deltas are mostly 1, aligned to the timeframe 2
C17_Witness ==
    /\ Ran("alignTimestamps")
    /\ Len(event.body.data.items) = 12
    /\ Occurrences(WindowDeltas, 2) = 5
    /\ event.body.data.items[12].timestamp - event.body.data.items[10].timestamp = 2
    /\ getTimeframeFromData(event.body.data.items) = <<2>>
    /\ \A i \in 1..12 : response.body.data[i].timestamp % 2 = 0

\* C18: a batch of fewer than 10 candles comes back from removeOutliers
\* unchanged under every threshold: every candle equal to the input candle in
\* every field, none with outlierCorrected; so does every shorter prefix of it.
C18_SmallBatchUnchanged ==
    (Ran("removeOutliers") /\ Len(event.body.data.items) < MinOutlierBatch) =>
        LET data == event.body.data.items
        IN  /\ response.body.data = data
            /\ \A i \in 1..Len(response.body.data) :
                  /\ "outlierCorrected" \notin DOMAIN response.body.data[i]
                  /\ response.body.data[i].high = data[i].high
                  /\ response.body.data[i].low = data[i].low
            /\ \A k \in 0..Len(data), t \in 0..(MaxThreshold + 1) :
                  removeOutliers(SubSeq(data, 1, k), t) = SubSeq(data, 1, k)

\* C18 witness: 9 candles, one with a high more than Threshold standard
\* deviations above the mean and one with a low as far below, answered as sent
C18_Witness ==
    /\ Ran("removeOutliers")
    /\ Len(event.body.data.items) = MinOutlierBatch - 1
    /\ \E i, j \in 1..Len(event.body.data.items) :
          /\ ZScoreExceeds(event.body.data.items, "high", event.body.data.items[i].high, Threshold)
          /\ ZScoreExceeds(event.body.data.items, "low", event.body.data.items[j].low, Threshold)
    /\ response.body.data = event.body.data.items

\* C19: in a batch of 10 or more candles, a candle whose high is more than
\* Threshold standard deviations from the mean high keeps its input low, also
\* when its low is as far from the mean low; no candle comes back with both
\* its high and its low changed.
C19_HighCheckBeforeLowCheck ==
    (Ran("removeOutliers") /\ Len(event.body.data.items) >= MinOutlierBatch) =>
        LET data == event.body.data.items
        IN  /\ Len(response.body.data) = Len(data)
            /\ \A i \in 1..Len(data) :
                  /\ ZScoreExceeds(data, "high", data[i].high, Threshold)
                        => response.body.data[i].low = data[i].low
                  /\ \/ response.body.data[i].high = data[i].high
                     \/ response.body.data[i].low = data[i].low

\* C19 witness: a candle whose high and low are both beyond the threshold
\* comes back with its high clamped and its low as sent
C19_Witness ==
    /\ Ran("removeOutliers")
    /\ Len(event.body.data.items) >= MinOutlierBatch
    /\ \E i \in 1..Len(event.body.data.items) :
          /\ ZScoreExceeds(event.body.data.items, "high", event.body.data.items[i].high, Threshold)
          /\ ZScoreExceeds(event.body.data.items, "low", event.body.data.items[i].low, Threshold)
          /\ response.body.data[i].high # event.body.data.items[i].high
          /\ response.body.data[i].low = event.body.data.items[i].low
          /\ response.body.data[i].outlierCorrected = TRUE

\* The value is within Threshold standard deviations of the batch mean of the field
WithinBounds(field, x) ==
    /\ NumLeq(ClampBound(event.body.data.items, field, -1, Threshold), x)
    /\ NumLeq(x, ClampBound(event.body.data.items, field, 1, Threshold))

\* The output candle differs from the input candle: a field changed or
\* outlierCorrected was added
Touched(i) == response.body.data[i] # event.body.data.items[i]

\* C20: a batch of 10 or more candles sent to removeOutliers alone is answered
\* with status 200; when all its highs are equal (stdDevHigh = 0) every high
\* comes back as sent and only a candle whose low is beyond the low bounds is
\* changed or marked; when all its lows are equal (stdDevLow = 0) every low
\* comes back as sent and only a candle whose high is beyond the high bounds
\* is changed or marked.
C20_ZeroDeviationFlagsNothing ==
    (/\ ValidProcessPost
     /\ pc = "done"
     /\ Len(event.body.data.items) >= MinOutlierBatch) =>
        LET data == event.body.data.items
        IN  /\ Ran("removeOutliers")
            /\ Len(response.body.data) = Len(data)
            /\ ScaledVariance(data, "high") = 0 =>
                  \A i \in 1..Len(data) :
                      /\ response.body.data[i].high = data[i].high
                      /\ Touched(i) => ~WithinBounds("low", data[i].low)
            /\ ScaledVariance(data, "low") = 0 =>
                  \A i \in 1..Len(data) :
                      /\ response.body.data[i].low = data[i].low
                      /\ Touched(i) => ~WithinBounds("high", data[i].high)

\* C20 witness: all highs equal and two distinct lows, one of them clamped,
\* every other candle answered as sent
C20_Witness ==
    /\ Ran("removeOutliers")
    /\ Len(event.body.data.items) >= MinOutlierBatch
    /\ ScaledVariance(event.body.data.items, "high") = 0
    /\ ScaledVariance(event.body.data.items, "low") > 0
    /\ \E i, j \in 1..Len(event.body.data.items) :
          /\ response.body.data[i].low = LowerBound
          /\ response.body.data[i].outlierCorrected = TRUE
          /\ response.body.data[i].high = event.body.data.items[i].high
          /\ ~Touched(j)

\* The fields alignTimestamps does not write
Ohlcv == {"open", "high", "low", "close", "volume"}

ConstantClose(c) ==
    \A i \in 1..Len(event.body.data.items) : event.body.data.items[i].close = <<c>>

\* The fraction <<p, q>> is the number c
IsNumber(value, c) == Len(value) = 2 /\ value[1] = c * value[2]

DistinctTimestamps ==
    Cardinality({event.body.data.items[i].timestamp : i \in 1..Len(event.body.data.items)})

\* C23: with a detectable timeframe, every input candle whose timestamp no
\* other input candle has is in the output of handleMissingValues, equal in
\* every field, and the output has at least as many candles as the input has
\* distinct timestamps.
C23_NoActualCandleDiscarded ==
    (Ran("handleMissingValues") /\ ~Falsy(InferredTimeframe)) =>
        LET data == event.body.data.items
        IN  /\ \A i \in 1..Len(data) :
                  (\A j \in 1..Len(data) : data[j].timestamp = data[i].timestamp => j = i)
                      => \E k \in 1..Len(response.body.data) : response.body.data[k] = data[i]
            /\ Len(response.body.data) >= DistinctTimestamps

\* low <= min(open, close) and max(open, close) <= high
Ordered(candle) ==
    /\ NumLeq(candle.low, candle.open)
    /\ NumLeq(candle.low, candle.close)
    /\ NumLeq(candle.open, candle.high)
    /\ NumLeq(candle.close, candle.high)

\* C24: every candle sent to removeOutliers with low <= min(open, close) and
\* max(open, close) <= high comes back with low <= min(open, close) and
\* max(open, close) <= high.
C24_PriceOrderPreserved ==
    Ran("removeOutliers") =>
        /\ Len(response.body.data) = Len(event.body.data.items)
        /\ \A i \in 1..Len(event.body.data.items) :
              Ordered(event.body.data.items[i]) => Ordered(response.body.data[i])

\* C25: a candle that comes back from removeOutliers with outlierCorrected
\* has a high or a low different from the one sent; a candle whose high and
\* low are as sent is not marked.
C25_MarkedOnlyIfChanged ==
    Ran("removeOutliers") =>
        /\ Len(response.body.data) = Len(event.body.data.items)
        /\ \A i \in 1..Len(event.body.data.items) :
              "outlierCorrected" \in DOMAIN response.body.data[i] =>
                  \/ response.body.data[i].high # event.body.data.items[i].high
                  \/ response.body.data[i].low # event.body.data.items[i].low

\* The positions of the request's candles that have the timestamp
Sharing(timestamp) ==
    {i \in 1..Len(event.body.data.items) : event.body.data.items[i].timestamp = timestamp}

\* C26: with a detectable timeframe, a timestamp that several input candles
\* share is the timestamp of exactly one candle in the output of
\* handleMissingValues, and that candle is the last of them in input order
\* (the last in the stable sort by timestamp).
C26_OneCandlePerSharedTimestamp ==
    (Ran("handleMissingValues") /\ ~Falsy(InferredTimeframe)) =>
        \A i \in 1..Len(event.body.data.items) :
            LET sharing == Sharing(event.body.data.items[i].timestamp)
                last == CHOOSE j \in sharing : \A k \in sharing : k <= j
                emitted == {k \in 1..Len(response.body.data) :
                               response.body.data[k].timestamp = event.body.data.items[i].timestamp}
            IN  Cardinality(sharing) >= 2 =>
                    /\ Cardinality(emitted) = 1
                    /\ \A k \in emitted : response.body.data[k] = event.body.data.items[last]

\* |timeframe|
Magnitude(timeframe) == IF timeframe >= 0 THEN timeframe ELSE -timeframe

\* C27: whatever the order of the input candles, with the timeframe inferred
\* on the input as sent, every aligned timestamp is a multiple of the
\* timeframe and 0 <= original - aligned < timeframe.
C27_AlignedWithinOneTimeframeBelow ==
    (Ran("alignTimestamps") /\ ~Falsy(getTimeframeFromData(event.body.data.items))) =>
        LET data == event.body.data.items
            timeframe == getTimeframeFromData(data)[1]
        IN  /\ Len(response.body.data) = Len(data)
            /\ \A i \in 1..Len(data) :
                  LET aligned == response.body.data[i].timestamp
                  IN  /\ aligned % Magnitude(timeframe) = 0
                      /\ 0 <= data[i].timestamp - aligned
                      /\ data[i].timestamp - aligned < timeframe

\* C28: whatever the exchange answers, every round of the fetch loop leaves
\* currentSince strictly greater than it found it, so that the loop ends once
\* currentSince has reached `until`.
C28_CurrentSinceStrictlyIncreases ==
    [][(pc = "fetch" /\ pc' = "fetch") => currentSince' > currentSince]_vars

\* C29: when the exchange returns only candles at or after the `since` it is
\* given, in ascending order, the ohlcv of a 200 response has no two candles
\* with the same timestamp and only candles with since <= timestamp < until.
C29_NoDuplicateAndWithinRange ==
    (event.fn = "fetch" /\ pc = "done" /\ response.statusCode = 200
        /\ event.httpMethod = "POST") =>
        LET ohlcv == response.body.ohlcv
        IN  /\ \A i, j \in 1..Len(ohlcv) : ohlcv[i].timestamp = ohlcv[j].timestamp => i = j
            /\ \A i \in 1..Len(ohlcv) :
                  since <= ohlcv[i].timestamp /\ ohlcv[i].timestamp < until

\* C30: once the jobs are known, whatever step of whatever job fails, the
\* handler returns with a result entry for every active job and with every
\* active job's lastStatus 'completed' or 'failed'.
C30_EveryJobProcessedAndSettled ==
    (event.fn = "collect" /\ pc = "done" /\ job >= 1) =>
        /\ response.statusCode = 200
        /\ \A j \in 1..event.activeJobs :
              /\ lastStatus[j] \in {"completed", "failed"}
              /\ \E k \in 1..Len(response.body.results) : response.body.results[k].jobId = j

=============================================================================
